---- MODULE Spec2Model ----
(***************************************************************************)
(* chitchats-mcp: the tool dispatcher (src/index.ts), the parameter        *)
(* schemas (src/schemas.ts), the transport client (src/client.ts) and the  *)
(* tool handlers (src/tools/*.ts), as a state machine of tool calls.       *)
(*                                                                         *)
(* Texts are real strings.  JSON values (tool arguments, response bodies)  *)
(* are tagged records; JavaScript's truthiness, property reads and         *)
(* template rendering are operators over them.                             *)
(***************************************************************************)
EXTENDS Integers, Sequences, FiniteSets, TLC

(***************************************************************************)
(* The state: the environment the process started in; the tool calls in    *)
(* flight, one per slot of the host; and, for the properties that compare  *)
(* calls, the log of the calls that have returned.  The code keeps no      *)
(* state between calls: the log is the observer's.                         *)
(***************************************************************************)
VARIABLES env, calls, log

(***************************************************************************)
(* JSON values and the JavaScript operations the code applies to them      *)
(***************************************************************************)
Undefined == [k |-> "undefined"]
JNull == [k |-> "null"]
JBool(b) == [k |-> "bool", b |-> b]
JNum(n) == [k |-> "num", n |-> n]
JStr(s) == [k |-> "str", s |-> s]
JArr(a) == [k |-> "arr", a |-> a]
JObj(o) == [k |-> "obj", o |-> o]

\* if (v) ..., v || w, !v
Truthy(v) ==
  CASE v.k = "bool" -> v.b
    [] v.k = "num" -> v.n # 0
    [] v.k = "str" -> v.s # ""
    [] v.k \in {"arr", "obj"} -> TRUE
    [] OTHER -> FALSE

\* v is null or undefined: reading a property of it raises a TypeError
Nullish(v) == v.k \in {"undefined", "null"}

\* v.key for a v that is not nullish (a missing key, or a key of a scalar, reads undefined)
Prop(v, key) ==
  IF v.k = "obj" /\ key \in DOMAIN v.o THEN v.o[key] ELSE Undefined

\* v?.key
OptProp(v, key) == IF Nullish(v) THEN Undefined ELSE Prop(v, key)

\* v.length for a v that is not nullish
Length(v) ==
  CASE v.k = "arr" -> JNum(Len(v.a))
    [] v.k = "str" -> JNum(Len(v.s))
    [] OTHER -> Prop(v, "length")

\* `${v}`
Render(v) ==
  CASE v.k = "str" -> v.s
    [] v.k = "num" -> ToString(v.n)
    [] v.k = "bool" -> (IF v.b THEN "true" ELSE "false")
    [] v.k = "null" -> "null"
    [] v.k = "undefined" -> "undefined"
    [] v.k = "arr" -> "[array]"
    [] OTHER -> "[object Object]"

\* the word zod reports for the type it received
ZodTypeOf(v) ==
  CASE v.k = "str" -> "string"
    [] v.k = "num" -> "number"
    [] v.k = "bool" -> "boolean"
    [] v.k = "arr" -> "array"
    [] v.k = "obj" -> "object"
    [] v.k = "null" -> "null"
    [] OTHER -> "undefined"

\* s contains t
Contains(s, t) ==
  \E i \in 1..(Len(s) - Len(t) + 1) : SubSeq(s, i, i + Len(t) - 1) = t

RECURSIVE Concat(_)
\* the concatenation of a sequence of sequences (or of strings)
Concat(ss) == IF Len(ss) = 0 THEN <<>> ELSE Head(ss) \o Concat(Tail(ss))

RECURSIVE Join(_, _)
\* parts.join(sep)
Join(parts, sep) ==
  IF Len(parts) = 0 THEN ""
  ELSE IF Len(parts) = 1 THEN parts[1]
  ELSE parts[1] \o sep \o Join(Tail(parts), sep)

(***************************************************************************)
(* src/schemas.ts: the zod schemas, each a sequence of declared fields     *)
(***************************************************************************)
ZString(name, optional) ==
  [name |-> name, type |-> "string", optional |-> optional,
   hasMin |-> FALSE, min |-> 0, hasMax |-> FALSE, max |-> 0, options |-> <<>>]
ZNumber(name, optional) ==
  [name |-> name, type |-> "number", optional |-> optional,
   hasMin |-> FALSE, min |-> 0, hasMax |-> FALSE, max |-> 0, options |-> <<>>]
ZNumberMin(name, min, optional) ==
  [name |-> name, type |-> "number", optional |-> optional,
   hasMin |-> TRUE, min |-> min, hasMax |-> FALSE, max |-> 0, options |-> <<>>]
ZNumberMinMax(name, min, max, optional) ==
  [name |-> name, type |-> "number", optional |-> optional,
   hasMin |-> TRUE, min |-> min, hasMax |-> TRUE, max |-> max, options |-> <<>>]
ZEnum(name, options, optional) ==
  [name |-> name, type |-> "enum", optional |-> optional,
   hasMin |-> FALSE, min |-> 0, hasMax |-> FALSE, max |-> 0, options |-> options]
ZStringArray(name, optional) ==
  [name |-> name, type |-> "stringArray", optional |-> optional,
   hasMin |-> FALSE, min |-> 0, hasMax |-> FALSE, max |-> 0, options |-> <<>>]

ListShipmentsSchema ==
  << ZNumberMinMax("limit", 1, 1000, TRUE),
     ZNumberMin("page", 1, TRUE),
     ZString("batch_id", TRUE),
     ZString("status", TRUE),
     ZString("from_date", TRUE),
     ZString("to_date", TRUE),
     ZString("search", TRUE) >>

GetShipmentSchema == << ZString("id", FALSE) >>

CreateShipmentSchema ==
  << ZString("name", FALSE),
     ZString("address_1", FALSE),
     ZString("address_2", TRUE),
     ZString("city", FALSE),
     ZString("province_code", FALSE),
     ZString("postal_code", FALSE),
     ZString("country_code", FALSE),
     ZString("phone", TRUE),
     ZString("email", TRUE),
     ZEnum("package_type", <<"parcel", "thick_envelope", "flat_rate_envelope">>, TRUE),
     ZEnum("size_unit", <<"cm", "in">>, TRUE),
     ZNumber("size_x", TRUE),
     ZNumber("size_y", TRUE),
     ZNumber("size_z", TRUE),
     ZEnum("weight_unit", <<"g", "kg", "oz", "lb">>, TRUE),
     ZNumber("weight", TRUE),
     ZString("description", TRUE),
     ZNumber("value", TRUE),
     ZEnum("value_currency", <<"CAD", "USD">>, TRUE),
     ZString("order_id", TRUE),
     ZString("order_store", TRUE),
     ZString("postage_type", TRUE) >>

DeleteShipmentSchema == << ZString("id", FALSE) >>

BuyPostageSchema == << ZString("id", FALSE) >>

RefundShipmentSchema == << ZString("id", FALSE) >>

RefreshRatesSchema ==
  << ZString("id", FALSE),
     ZNumber("size_x", TRUE),
     ZNumber("size_y", TRUE),
     ZNumber("size_z", TRUE),
     ZNumber("weight", TRUE) >>

CountShipmentsSchema == << ZString("status", TRUE) >>

ListBatchesSchema ==
  << ZNumberMinMax("limit", 1, 1000, TRUE),
     ZNumberMin("page", 1, TRUE),
     ZEnum("status", <<"pending", "received">>, TRUE) >>

CreateBatchSchema == << ZString("description", TRUE) >>

GetBatchSchema == << ZString("id", FALSE) >>

DeleteBatchSchema == << ZString("id", FALSE) >>

AddToBatchSchema ==
  << ZString("batch_id", FALSE),
     ZStringArray("shipment_ids", FALSE) >>

RemoveFromBatchSchema == << ZStringArray("shipment_ids", FALSE) >>

\* a schema that takes one more status than the catalog lists
CountBatchesSchemaWider == << ZEnum("status", <<"pending", "received", "closed">>, TRUE) >>

CountBatchesSchema == << ZEnum("status", <<"pending", "received">>, TRUE) >>

ListReturnsSchema ==
  << ZNumberMinMax("limit", 1, 1000, TRUE),
     ZNumberMin("page", 1, TRUE),
     ZString("status", TRUE),
     ZString("reason", TRUE) >>

TrackShipmentSchema == << ZString("id", FALSE) >>

\* the names a schema declares
FieldNames(schema) == { schema[i].name : i \in 1..Len(schema) }
\* the names a schema declares without .optional()
RequiredNames(schema) == { schema[i].name : i \in { j \in 1..Len(schema) : ~schema[j].optional } }

(***************************************************************************)
(* zod: Schema.parse(input).  The input is the call's arguments: an object *)
(* of JSON values, or undefined when the call carries no arguments.        *)
(* z.object strips the keys the schema does not declare.                   *)
(***************************************************************************)
ZodIssue(code, path, message) == [code |-> code, path |-> path, message |-> message]

\* the options of an enum as zod prints them: 'a' | 'b'
EnumText(options) == Join([i \in 1..Len(options) |-> "'" \o options[i] \o "'"], " | ")

\* the issues of the elements of an array field that are not strings
ElementIssues(fs, v) ==
  LET bad == SelectSeq([i \in 1..Len(v.a) |-> i], LAMBDA i : v.a[i].k # "str")
  IN [j \in 1..Len(bad) |->
        ZodIssue("invalid_type", <<"\"" \o fs.name \o "\"", ToString(bad[j] - 1)>>,
                 "Expected string, received " \o ZodTypeOf(v.a[bad[j]]))]

\* a check that takes every field for optional: only a present string field
\* of the wrong type raises an issue
FieldIssuesOfPresent(fs, o) ==
  IF fs.name \in DOMAIN o /\ fs.type = "string" /\ o[fs.name].k # "str"
  THEN <<ZodIssue("invalid_type", <<"\"" \o fs.name \o "\"">>,
                  "Expected string, received " \o ZodTypeOf(o[fs.name]))>>
  ELSE <<>>

\* the issues zod raises for one declared field of the input object o
FieldIssues(fs, o) ==
  LET path == <<"\"" \o fs.name \o "\"">>
      v == IF fs.name \in DOMAIN o THEN o[fs.name] ELSE Undefined
  IN IF v.k = "undefined"
     THEN IF fs.optional THEN <<>> ELSE <<ZodIssue("invalid_type", path, "Required")>>
     ELSE CASE fs.type = "string" ->
                 IF v.k = "str" THEN <<>>
                 ELSE <<ZodIssue("invalid_type", path, "Expected string, received " \o ZodTypeOf(v))>>
            [] fs.type = "number" ->
                 IF v.k # "num"
                 THEN <<ZodIssue("invalid_type", path, "Expected number, received " \o ZodTypeOf(v))>>
                 ELSE (IF fs.hasMin /\ v.n < fs.min
                       THEN <<ZodIssue("too_small", path,
                                "Number must be greater than or equal to " \o ToString(fs.min))>>
                       ELSE <<>>)
                      \o
                      (IF fs.hasMax /\ v.n > fs.max
                       THEN <<ZodIssue("too_big", path,
                                "Number must be less than or equal to " \o ToString(fs.max))>>
                       ELSE <<>>)
            [] fs.type = "enum" ->
                 IF v.k # "str"
                 THEN <<ZodIssue("invalid_type", path,
                          "Expected " \o EnumText(fs.options) \o ", received " \o ZodTypeOf(v))>>
                 ELSE IF \E i \in 1..Len(fs.options) : fs.options[i] = v.s THEN <<>>
                 ELSE <<ZodIssue("invalid_enum_value", path,
                          "Invalid enum value. Expected " \o EnumText(fs.options)
                            \o ", received '" \o v.s \o "'")>>
            [] OTHER ->
                 IF v.k # "arr"
                 THEN <<ZodIssue("invalid_type", path, "Expected array, received " \o ZodTypeOf(v))>>
                 ELSE ElementIssues(fs, v)

\* a strict object schema: a key the schema does not declare is an issue
ZodIssuesStrict(schema, input) ==
  IF input.k # "obj"
  THEN <<ZodIssue("invalid_type", <<>>, "Required")>>
  ELSE Concat([i \in 1..Len(schema) |-> FieldIssues(schema[i], input.o)])
       \o (IF DOMAIN input.o \subseteq FieldNames(schema) THEN <<>>
           ELSE <<ZodIssue("unrecognized_keys", <<>>, "Unrecognized key(s) in object")>>)

\* all the issues of an input, in the order of the schema's fields
ZodIssues(schema, input) ==
  IF input.k # "obj"
  THEN <<ZodIssue("invalid_type", <<>>, "Required")>>
  ELSE Concat([i \in 1..Len(schema) |-> FieldIssues(schema[i], input.o)])

\* a message that counts the issues and leaves their paths out
ZodMessageCountOnly(issues) == "Invalid input: " \o ToString(Len(issues)) \o " issue(s)"

\* ZodError.message: the issues as JSON (JSON.stringify's line breaks and the
\* expected/received keys of an issue are left out)
ZodMessage(issues) ==
  "[" \o Join([i \in 1..Len(issues) |->
                 "{\"code\":\"" \o issues[i].code \o "\",\"path\":[" \o Join(issues[i].path, ",")
                   \o "],\"message\":\"" \o issues[i].message \o "\"}"], ",") \o "]"

\* Schema.parse(input): the typed parameters, or the ZodError it throws
ZodParse(schema, input) ==
  LET issues == ZodIssues(schema, input)
  IN IF Len(issues) > 0
     THEN [threw |-> TRUE, isErrorObject |-> TRUE, message |-> ZodMessage(issues), params |-> Undefined]
     ELSE [threw |-> FALSE, isErrorObject |-> FALSE, message |-> "",
           params |-> JObj([f \in FieldNames(schema) \cap DOMAIN input.o |-> input.o[f]])]

(***************************************************************************)
(* src/client.ts: the transport client.  The configuration is read from    *)
(* the environment once; a variable that is not set reads undefined.       *)
(***************************************************************************)
\* the process environment: [CHITCHATS_CLIENT_ID, CHITCHATS_ACCESS_TOKEN, CHITCHATS_BASE_URL]
CLIENT_ID(e) == e.CHITCHATS_CLIENT_ID
ACCESS_TOKEN(e) == e.CHITCHATS_ACCESS_TOKEN
BASE_URL(e) ==
  IF Truthy(e.CHITCHATS_BASE_URL) THEN e.CHITCHATS_BASE_URL.s ELSE "https://chitchats.com"

\* the fields the constructor sets
ChitChatsClient(e) ==
  [baseUrl |-> BASE_URL(e) \o "/api/v1/clients/" \o Render(CLIENT_ID(e)),
   clientId |-> IF Truthy(CLIENT_ID(e)) THEN CLIENT_ID(e).s ELSE "",
   accessToken |-> IF Truthy(ACCESS_TOKEN(e)) THEN ACCESS_TOKEN(e).s ELSE ""]

\* the value a rejected fetch, a failed response.json() or a failed property read throws
Thrown(isErrorObject, message) == [isErrorObject |-> isErrorObject, message |-> message]
TypeErrorOf(message) == Thrown(TRUE, message)

\* an ApiResponse: a key that is not set reads undefined
ApiResponse(data, error, status) == [data |-> data, error |-> error, status |-> status]

\* a request method that sets Content-Type on every request
RequestOfAlwaysContentType(e, method, endpoint, body) ==
  [url |-> ChitChatsClient(e).baseUrl \o endpoint,
   method |-> method,
   headers |-> [Authorization |-> ChitChatsClient(e).accessToken,
                Accept |-> "application/json",
                ContentType |-> "application/json"],
   body |-> IF Truthy(body) THEN body ELSE Undefined]

\* a request method that sends the Accept header only
RequestOfWithoutAuthorization(e, method, endpoint, body) ==
  [url |-> ChitChatsClient(e).baseUrl \o endpoint,
   method |-> method,
   headers |-> [Accept |-> "application/json"],
   body |-> IF Truthy(body) THEN body ELSE Undefined]

\* the HTTP request that request(method, endpoint, body) hands to fetch
RequestOf(e, method, endpoint, body) ==
  [url |-> ChitChatsClient(e).baseUrl \o endpoint,
   method |-> method,
   headers |-> IF Truthy(body)
               THEN [Authorization |-> ChitChatsClient(e).accessToken,
                     Accept |-> "application/json",
                     ContentType |-> "application/json"]
               ELSE [Authorization |-> ChitChatsClient(e).accessToken,
                     Accept |-> "application/json"],
   body |-> IF Truthy(body) THEN body ELSE Undefined]

\* the HTTP request of getPublicTracking(shipmentId): fetch(url) with no options
PublicTrackingRequestOf(e, shipmentId) ==
  [url |-> BASE_URL(e) \o "/tracking/" \o shipmentId \o ".json",
   method |-> "GET",
   headers |-> <<>>,
   body |-> Undefined]

\* response.ok
ResponseOk(status) == status >= 200 /\ status <= 299

\* the catch block of request and of getPublicTracking
CatchResult(err) ==
  ApiResponse(Undefined,
              JStr(IF err.isErrorObject THEN err.message ELSE "Unknown error"),
              500)

\* a 429 result that guesses a delay when the header gives none
RateLimitedResultGuessing(response) ==
  ApiResponse(Undefined,
              JStr("Rate limited. Retry after "
                     \o (IF Truthy(response.retryAfter) THEN response.retryAfter.s ELSE "60")
                     \o " seconds."),
              429)

\* the result for a 429 response
RateLimitedResult(response) ==
  ApiResponse(Undefined,
              JStr("Rate limited. Retry after "
                     \o (IF Truthy(response.retryAfter) THEN response.retryAfter.s ELSE "unknown")
                     \o " seconds."),
              429)

\* a 204 result that carries an empty payload
EmptyResultWithData == ApiResponse(JObj(<<>>), Undefined, 204)

\* the result for a 204 response
EmptyResult == ApiResponse(Undefined, Undefined, 204)

\* data.error || data.message || `HTTP ${response.status}`
ErrorMessageOf(data, status) ==
  IF Truthy(Prop(data, "error")) THEN Prop(data, "error")
  ELSE IF Truthy(Prop(data, "message")) THEN Prop(data, "message")
  ELSE JStr("HTTP " \o ToString(status))

\* how a client method completes: it returns an ApiResponse or it throws
Returned(result, bodyRead) ==
  [threw |-> FALSE, thrown |-> Thrown(FALSE, ""), result |-> result, bodyRead |-> bodyRead]
Raised(thrown, bodyRead) ==
  [threw |-> TRUE, thrown |-> thrown, result |-> ApiResponse(Undefined, Undefined, 0),
   bodyRead |-> bodyRead]

\* the block for a response whose body parsed to data and whose status is not ok:
\* reading data.error throws when data is null
NotOkResult(data, status) ==
  IF Nullish(data)
  THEN Raised(TypeErrorOf("Cannot read properties of null (reading 'error')"), TRUE)
  ELSE Returned(ApiResponse(Undefined, ErrorMessageOf(data, status), status), TRUE)

\* what await response.json() throws for a body that is not JSON
JsonSyntaxError == Thrown(TRUE, "Unexpected token < in JSON at position 0")

\* a try block that reads the body before it looks at the status
requestTryParsingFirst(response) ==
  IF response.rejected
  THEN Raised(response.thrown, FALSE)
  ELSE IF ~response.json.ok
  THEN Raised(JsonSyntaxError, TRUE)
  ELSE IF response.status = 429
  THEN Returned(RateLimitedResult(response), TRUE)
  ELSE IF response.status = 204
  THEN Returned(EmptyResult, TRUE)
  ELSE IF ~ResponseOk(response.status)
  THEN NotOkResult(response.json.value, response.status)
  ELSE Returned(ApiResponse(response.json.value, Undefined, response.status), TRUE)

\* the try block of request, from the point where fetch settles with `response`;
\* bodyRead: whether response.json() was called
requestTry(response) ==
  IF response.rejected
  THEN Raised(response.thrown, FALSE)
  ELSE IF response.status = 429
  THEN Returned(RateLimitedResult(response), FALSE)
  ELSE IF response.status = 204
  THEN Returned(EmptyResult, FALSE)
  ELSE IF ~response.json.ok
  THEN Raised(JsonSyntaxError, TRUE)
  ELSE IF ~ResponseOk(response.status)
  THEN NotOkResult(response.json.value, response.status)
  ELSE Returned(ApiResponse(response.json.value, Undefined, response.status), TRUE)

\* the try block of getPublicTracking
getPublicTrackingTry(response) ==
  IF response.rejected
  THEN Raised(response.thrown, FALSE)
  ELSE IF ~response.json.ok
  THEN Raised(JsonSyntaxError, TRUE)
  ELSE Returned(ApiResponse(response.json.value, Undefined, response.status), TRUE)

\* a method without the catch block: the fault reaches the caller
TryWithoutCatch(tried) == tried

\* try { ... } catch (err) { return { error, status: 500 } }
TryCatch(tried) ==
  IF tried.threw THEN Returned(CatchResult(tried.thrown), tried.bodyRead) ELSE tried

\* request(method, endpoint, body) once fetch has settled with `response`
request(response) == TryCatch(requestTry(response))

\* getPublicTracking(shipmentId) once fetch has settled with `response`
getPublicTracking(response) == TryCatch(getPublicTrackingTry(response))

\* the client method a handler awaits: get, post, patch, delete or getPublicTracking
ClientCall(via, endpoint, body) == [via |-> via, endpoint |-> endpoint, body |-> body]

\* the HTTP request a client call sends (for getPublicTracking the endpoint is the shipment id)
HttpRequestOf(e, call) ==
  CASE call.via = "get" -> RequestOf(e, "GET", call.endpoint, Undefined)
    [] call.via = "post" -> RequestOf(e, "POST", call.endpoint, call.body)
    [] call.via = "patch" -> RequestOf(e, "PATCH", call.endpoint, call.body)
    [] call.via = "delete" -> RequestOf(e, "DELETE", call.endpoint, Undefined)
    [] OTHER -> PublicTrackingRequestOf(e, call.endpoint)

\* a method that sends its request again after a 429
FetchesAfterRetrying(e, call, response) ==
  IF ~response.rejected /\ response.status = 429 THEN <<HttpRequestOf(e, call)>> ELSE <<>>

\* the requests a client method sends after fetch has settled: every branch of
\* request and of getPublicTracking returns, none calls fetch again
FetchesAfter(e, call, response) == <<>>

\* the ApiResponse a client call returns once fetch has settled with `response`
ClientResult(call, response) ==
  IF call.via = "getPublicTracking" THEN getPublicTracking(response) ELSE request(response)

(***************************************************************************)
(* What the handlers share: URLSearchParams, lines.push, a returned text   *)
(* or a thrown fault                                                       *)
(***************************************************************************)
Ret(text) == [threw |-> FALSE, isErrorObject |-> FALSE, message |-> "", text |-> text]
Throw(message) == [threw |-> TRUE, isErrorObject |-> TRUE, message |-> message, text |-> ""]

\* URLSearchParams' encoding of one character (space, and the reserved characters
\* the inputs use; letters, digits and - _ . * stay as they are)
EncodeChar(c) ==
  CASE c = " " -> "+"
    [] c = "/" -> "%2F"
    [] c = "&" -> "%26"
    [] c = "=" -> "%3D"
    [] c = "?" -> "%3F"
    [] OTHER -> c

RECURSIVE Encode(_)
Encode(s) == IF Len(s) = 0 THEN "" ELSE EncodeChar(SubSeq(s, 1, 1)) \o Encode(SubSeq(s, 2, Len(s)))

\* if (params.key) queryParams.set(key, params.key)   (a number by toString())
QueryParam(params, key) ==
  IF Truthy(Prop(params, key))
  THEN <<key \o "=" \o Encode(Render(Prop(params, key)))>>
  ELSE <<>>

\* `${path}${query ? `?${query}` : ""}` for the query of the given parameters
Endpoint(path, pairs) ==
  LET query == Join(Concat(pairs), "&")
  IN path \o (IF query # "" THEN "?" \o query ELSE "")

\* if (params.key) body.key = params.key
BodyField(params, key) ==
  IF Truthy(Prop(params, key)) THEN {key} ELSE {}

\* if (s.key) lines.push(`${label}${s.key}`)
OptLine(s, key, label) ==
  IF Truthy(Prop(s, key)) THEN <<label \o Render(Prop(s, key))>> ELSE <<>>

\* `${s.key || fallback}`
OrElse(s, key, fallback) ==
  IF Truthy(Prop(s, key)) THEN Render(Prop(s, key)) ELSE fallback

\* x > 0 for a JSON value x (undefined > 0 is false)
IsPositive(v) == v.k = "num" /\ v.n > 0

\* list && list.length > 0
NonEmpty(list) == Truthy(list) /\ IsPositive(Length(list))

\* the elements a for..of or a .map visits (a string yields its characters)
Elements(list) ==
  CASE list.k = "arr" -> list.a
    [] list.k = "str" -> [i \in 1..Len(list.s) |-> JStr(SubSeq(list.s, i, i))]
    [] OTHER -> <<>>

RECURSIVE Dedup(_)
\* [...new Set(xs)]
Dedup(xs) ==
  IF Len(xs) = 0 THEN <<>>
  ELSE LET rest == Dedup(SubSeq(xs, 1, Len(xs) - 1))
           last == xs[Len(xs)]
       IN IF \E i \in 1..Len(rest) : rest[i] = last THEN rest ELSE Append(rest, last)

LowerCase == "abcdefghijklmnopqrstuvwxyz"
UpperCase == "ABCDEFGHIJKLMNOPQRSTUVWXYZ"
UpperChar(c) ==
  IF \E i \in 1..Len(LowerCase) : SubSeq(LowerCase, i, i) = c
  THEN LET i == CHOOSE j \in 1..Len(LowerCase) : SubSeq(LowerCase, j, j) = c
       IN SubSeq(UpperCase, i, i)
  ELSE c

RECURSIVE ToUpperCase(_)
\* s.toUpperCase()
ToUpperCase(s) ==
  IF Len(s) = 0 THEN "" ELSE UpperChar(SubSeq(s, 1, 1)) \o ToUpperCase(SubSeq(s, 2, Len(s)))

\* the first index of xs whose element satisfies Bad, or 0
FirstWhere(xs, Bad(_)) ==
  IF \E i \in 1..Len(xs) : Bad(xs[i])
  THEN CHOOSE i \in 1..Len(xs) : Bad(xs[i]) /\ \A j \in 1..(i - 1) : ~Bad(xs[j])
  ELSE 0

\* the TypeError of reading a property of null or undefined
ReadOfNullish(v, key) ==
  "Cannot read properties of " \o Render(v) \o " (reading '" \o key \o "')"

\* a loop over list (guarded by list && list.length > 0) throws: list cannot be
\* iterated, or the loop body throws on one of its elements
LoopThrows(list, Bad(_)) ==
  NonEmpty(list) /\ (list.k \notin {"arr", "str"} \/ FirstWhere(Elements(list), Bad) # 0)

\* the first element on which the loop body throws (when the list can be iterated)
FirstBad(list, Bad(_)) == Elements(list)[FirstWhere(Elements(list), Bad)]

(***************************************************************************)
(* src/tools/shipments.ts.  Each handler is two operators: <name>Call, the *)
(* client call it awaits, and <name>, the text it returns (or the fault it *)
(* throws) once the client has returned `response`.                        *)
(***************************************************************************)
listShipmentsCall(params) ==
  ClientCall("get",
             Endpoint("/shipments",
                      << QueryParam(params, "limit"), QueryParam(params, "page"),
                         QueryParam(params, "batch_id"), QueryParam(params, "status"),
                         QueryParam(params, "from_date"), QueryParam(params, "to_date"),
                         QueryParam(params, "search") >>),
             Undefined)

\* li.hs_tariff_code throws
HsCodeThrows(li) == Nullish(li)

\* the formatting of one listed shipment throws
ListedShipmentThrows(s) ==
  \/ Nullish(s)
  \/ /\ NonEmpty(Prop(s, "line_items"))
     /\ \/ Prop(s, "line_items").k # "arr"
        \/ FirstWhere(Prop(s, "line_items").a, HsCodeThrows) # 0

ListedShipmentFault(s) ==
  IF Nullish(s) THEN ReadOfNullish(s, "id")
  ELSE IF Prop(s, "line_items").k # "arr" THEN "s.line_items.map is not a function"
  ELSE ReadOfNullish(FirstBad(Prop(s, "line_items"), HsCodeThrows), "hs_tariff_code")

\* [...new Set(s.line_items.map(li => li.hs_tariff_code).filter(Boolean))]
HsCodes(s) ==
  LET items == Prop(s, "line_items").a
  IN Dedup(SelectSeq([i \in 1..Len(items) |-> Prop(items[i], "hs_tariff_code")], Truthy))

ListedShipment(s) ==
  Join(<< "ID: " \o Render(Prop(s, "id")),
          "Status: " \o Render(Prop(s, "status")),
          "Recipient: " \o Render(Prop(s, "to_name")) \o ", " \o Render(Prop(s, "to_city")) \o ", "
            \o Render(Prop(s, "to_province_code")) \o ", " \o Render(Prop(s, "to_country_code")) >>
       \o OptLine(s, "order_id", "Order ID: ")
       \o OptLine(s, "carrier", "Carrier: ")
       \o OptLine(s, "postage_type", "Postage Type: ")
       \o OptLine(s, "purchase_amount", "Total Cost: $")
       \o OptLine(s, "carrier_tracking_code", "Tracking: ")
       \o (IF NonEmpty(Prop(s, "line_items")) /\ Len(HsCodes(s)) > 0
           THEN <<"HS Codes: " \o Join([i \in 1..Len(HsCodes(s)) |-> Render(HsCodes(s)[i])], ", ")>>
           ELSE <<>>)
       \o OptLine(s, "created_at", "Created: "),
       "\n")

\* a listing that formats an empty list like any other
listShipmentsWithoutSentinel(params, response) ==
  IF Truthy(response.error)
  THEN Ret("Error listing shipments: " \o Render(response.error))
  ELSE LET shipments == IF Truthy(response.data) THEN response.data ELSE JArr(<<>>)
       IN IF shipments.k # "arr"
          THEN Throw("shipments.map is not a function")
          ELSE IF FirstWhere(shipments.a, ListedShipmentThrows) # 0
          THEN Throw(ListedShipmentFault(FirstBad(shipments, ListedShipmentThrows)))
          ELSE Ret("Found " \o ToString(Len(shipments.a)) \o " shipment(s):\n\n"
                     \o Join([i \in 1..Len(shipments.a) |-> ListedShipment(shipments.a[i])],
                             "\n\n---\n\n"))

listShipments(params, response) ==
  IF Truthy(response.error)
  THEN Ret("Error listing shipments: " \o Render(response.error))
  ELSE LET shipments == IF Truthy(response.data) THEN response.data ELSE JArr(<<>>)
       IN IF Length(shipments) = JNum(0)
          THEN Ret("No shipments found matching your criteria.")
          ELSE IF shipments.k # "arr"
          THEN Throw("shipments.map is not a function")
          ELSE IF FirstWhere(shipments.a, ListedShipmentThrows) # 0
          THEN Throw(ListedShipmentFault(FirstBad(shipments, ListedShipmentThrows)))
          ELSE Ret("Found " \o ToString(Len(shipments.a)) \o " shipment(s):\n\n"
                     \o Join([i \in 1..Len(shipments.a) |-> ListedShipment(shipments.a[i])],
                             "\n\n---\n\n"))

\* getShipment, getShipmentRates, getShipmentLabels and getShipmentLineItems
getShipmentCall(params) ==
  ClientCall("get", "/shipments/" \o Render(Prop(params, "id")), Undefined)

\* the body of a loop over line items throws: item.currency_code.toUpperCase()
LineItemThrows(item) == Nullish(item) \/ Prop(item, "currency_code").k # "str"

LineItemFault(item) ==
  IF Nullish(item) THEN ReadOfNullish(item, "quantity")
  ELSE IF Nullish(Prop(item, "currency_code"))
  THEN ReadOfNullish(Prop(item, "currency_code"), "toUpperCase")
  ELSE "item.currency_code.toUpperCase is not a function"

\* the body of a loop over rates throws: rate.postage_description
RateThrows(rate) == Nullish(rate)

RateFault(rate) == ReadOfNullish(rate, "postage_description")

\* the fault of a loop that throws
LoopFault(list, name, Bad(_), Fault(_)) ==
  IF list.k \notin {"arr", "str"} THEN name \o " is not iterable"
  ELSE Fault(FirstBad(list, Bad))

\* `${rate.payment_amount || rate.purchase_amount}`
RateCost(rate) ==
  IF Truthy(Prop(rate, "payment_amount")) THEN Render(Prop(rate, "payment_amount"))
  ELSE Render(Prop(rate, "purchase_amount"))

DetailLineItem(item) ==
  << "**" \o Render(Prop(item, "quantity")) \o "x " \o Render(Prop(item, "description")) \o "**",
     "  - Value: $" \o Render(Prop(item, "value_amount")) \o " "
       \o ToUpperCase(Prop(item, "currency_code").s) >>
  \o OptLine(item, "hs_tariff_code", "  - HS Code: ")
  \o OptLine(item, "sku_code", "  - SKU: ")
  \o OptLine(item, "origin_country", "  - Origin: ")
  \o (IF Truthy(Prop(item, "weight"))
      THEN <<"  - Weight: " \o Render(Prop(item, "weight")) \o " " \o OrElse(item, "weight_unit", "g")>>
      ELSE <<>>)
  \o (IF Truthy(Prop(item, "manufacturer_id"))
      THEN <<"  - Manufacturer ID: " \o Render(Prop(item, "manufacturer_id"))>>
           \o (IF Truthy(Prop(item, "manufacturer_city"))
               THEN <<"  - Manufacturer: " \o Render(Prop(item, "manufacturer_city")) \o ", "
                        \o OrElse(item, "manufacturer_province_code", "")>>
               ELSE <<>>)
      ELSE <<>>)

DetailRate(rate) ==
  << "**" \o Render(Prop(rate, "postage_description")) \o "** ("
       \o Render(Prop(rate, "postage_type")) \o ")",
     "  - Cost: $" \o RateCost(rate) >>
  \o OptLine(rate, "delivery_time_description", "  - Delivery: ")
  \o OptLine(rate, "tracking_type_description", "  - Tracking: ")
  \o OptLine(rate, "tariff_fee", "  - Tariff: $")

\* the lines getShipment pushes for a shipment s on which no loop throws
ShipmentDetail(s) ==
  << "## Shipment " \o Render(Prop(s, "id")), "", "**Status:** " \o Render(Prop(s, "status")) >>
  \o OptLine(s, "order_id", "**Order ID:** ")
  \o OptLine(s, "order_store", "**Store:** ")
  \o OptLine(s, "batch_id", "**Batch ID:** ")
  \o << "", "### Recipient", "**Name:** " \o Render(Prop(s, "to_name")) >>
  \o (IF Truthy(Prop(s, "to_address_1"))
      THEN <<"**Address:** " \o Render(Prop(s, "to_address_1"))
               \o (IF Truthy(Prop(s, "to_address_2"))
                   THEN ", " \o Render(Prop(s, "to_address_2")) ELSE "")>>
      ELSE <<>>)
  \o << "**City:** " \o Render(Prop(s, "to_city")) \o ", " \o Render(Prop(s, "to_province_code"))
          \o " " \o OrElse(s, "to_postal_code", ""),
        "**Country:** " \o Render(Prop(s, "to_country_code")) >>
  \o OptLine(s, "to_phone", "**Phone:** ")
  \o OptLine(s, "to_email", "**Email:** ")
  \o << "", "### Package" >>
  \o OptLine(s, "package_type", "**Type:** ")
  \o OptLine(s, "package_contents", "**Contents Type:** ")
  \o OptLine(s, "description", "**Description:** ")
  \o (IF Truthy(Prop(s, "size_x")) /\ Truthy(Prop(s, "size_y")) /\ Truthy(Prop(s, "size_z"))
      THEN <<"**Dimensions:** " \o Render(Prop(s, "size_x")) \o " x " \o Render(Prop(s, "size_y"))
               \o " x " \o Render(Prop(s, "size_z")) \o " " \o OrElse(s, "size_unit", "")>>
      ELSE <<>>)
  \o (IF Truthy(Prop(s, "weight"))
      THEN <<"**Weight:** " \o Render(Prop(s, "weight")) \o " " \o OrElse(s, "weight_unit", "")>>
      ELSE <<>>)
  \o (IF Truthy(Prop(s, "value"))
      THEN <<"**Declared Value:** $" \o Render(Prop(s, "value")) \o " "
               \o OrElse(s, "value_currency", "")>>
      ELSE <<>>)
  \o (LET services ==
            (IF Truthy(Prop(s, "is_insured")) THEN <<"Insured">> ELSE <<>>)
            \o (IF Truthy(Prop(s, "is_signature_requested")) THEN <<"Signature Required">> ELSE <<>>)
            \o (IF Truthy(Prop(s, "is_delivery_duties_paid_requested")) THEN <<"DDP">> ELSE <<>>)
            \o (IF Truthy(Prop(s, "is_media_mail_requested")) THEN <<"Media Mail">> ELSE <<>>)
      IN IF Len(services) > 0 THEN <<"**Services:** " \o Join(services, ", ")>> ELSE <<>>)
  \o << "", "### Shipping" >>
  \o OptLine(s, "carrier", "**Carrier:** ")
  \o OptLine(s, "postage_type", "**Postage Type:** ")
  \o OptLine(s, "carrier_tracking_code", "**Tracking Number:** ")
  \o OptLine(s, "tracking_url", "**Tracking URL:** ")
  \o OptLine(s, "ship_date", "**Ship Date:** ")
  \o << "", "### Cost Breakdown" >>
  \o OptLine(s, "purchase_amount", "**Total Paid:** $")
  \o OptLine(s, "postage_fee", "- Postage: $")
  \o OptLine(s, "tariff_fee", "- Tariff/Duty: $")
  \o OptLine(s, "broker_conveyance_fee", "- Broker Fee: $")
  \o OptLine(s, "shipment_items_fee", "- Items Fee: $")
  \o OptLine(s, "insurance_fee", "- Insurance: $")
  \o OptLine(s, "delivery_fee", "- Delivery: $")
  \o OptLine(s, "fda_prior_notification_fee", "- FDA Fee: $")
  \o OptLine(s, "federal_tax", "- " \o OrElse(s, "federal_tax_label", "Federal Tax") \o ": $")
  \o OptLine(s, "provincial_tax", "- " \o OrElse(s, "provincial_tax_label", "Provincial Tax") \o ": $")
  \o (IF NonEmpty(Prop(s, "line_items"))
      THEN << "", "### Line Items" >>
           \o Concat([i \in 1..Len(Elements(Prop(s, "line_items"))) |->
                        DetailLineItem(Elements(Prop(s, "line_items"))[i])])
      ELSE <<>>)
  \o (IF NonEmpty(Prop(s, "rates"))
      THEN << "", "### Available Rates" >>
           \o Concat([i \in 1..Len(Elements(Prop(s, "rates"))) |->
                        DetailRate(Elements(Prop(s, "rates"))[i])])
      ELSE <<>>)
  \o (IF Truthy(Prop(s, "postage_label_png_url")) \/ Truthy(Prop(s, "postage_label_pdf_url"))
      THEN << "", "### Labels" >>
           \o OptLine(s, "postage_label_png_url", "- PNG: ")
           \o OptLine(s, "postage_label_pdf_url", "- PDF: ")
           \o OptLine(s, "postage_label_zpl_url", "- ZPL: ")
      ELSE <<>>)
  \o (IF Truthy(Prop(s, "return_name"))
      THEN << "", "### Return Address", Render(Prop(s, "return_name")) >>
           \o OptLine(s, "return_address_1", "")
           \o << Render(Prop(s, "return_city")) \o ", " \o Render(Prop(s, "return_province_code"))
                   \o " " \o Render(Prop(s, "return_postal_code")),
                 Render(Prop(s, "return_country_code")) >>
      ELSE <<>>)
  \o << "", "**Created:** " \o Render(Prop(s, "created_at")) >>

getShipment(params, response) ==
  IF Truthy(response.error)
  THEN Ret("Error getting shipment: " \o Render(response.error))
  ELSE LET s == OptProp(response.data, "shipment")
       IN IF ~Truthy(s)
          THEN Ret("Shipment " \o Render(Prop(params, "id")) \o " not found.")
          ELSE IF LoopThrows(Prop(s, "line_items"), LineItemThrows)
          THEN Throw(LoopFault(Prop(s, "line_items"), "s.line_items", LineItemThrows, LineItemFault))
          ELSE IF LoopThrows(Prop(s, "rates"), RateThrows)
          THEN Throw(LoopFault(Prop(s, "rates"), "s.rates", RateThrows, RateFault))
          ELSE Ret(Join(ShipmentDetail(s), "\n"))

\* !list || list.length === 0
NoneOf(list) == ~Truthy(list) \/ Length(list) = JNum(0)

\* a loop over a list that passed !list || list.length === 0 throws
UnguardedLoopThrows(list, Bad(_)) ==
  list.k \notin {"arr", "str"} \/ FirstWhere(Elements(list), Bad) # 0

RatesEntry(rate) ==
  << "### " \o Render(Prop(rate, "postage_description")),
     "- **Type:** " \o Render(Prop(rate, "postage_type")),
     "- **Carrier:** " \o Render(Prop(rate, "postage_carrier_type")),
     "- **Total Cost:** $" \o RateCost(rate),
     "  - Postage: $" \o Render(Prop(rate, "postage_fee")) >>
  \o OptLine(rate, "tariff_fee", "  - Tariff: $")
  \o OptLine(rate, "broker_conveyance_fee", "  - Broker: $")
  \o OptLine(rate, "shipment_items_fee", "  - Items Fee: $")
  \o OptLine(rate, "insurance_fee", "  - Insurance: $")
  \o OptLine(rate, "delivery_time_description", "- **Delivery:** ")
  \o OptLine(rate, "tracking_type_description", "- **Tracking:** ")
  \o (IF Truthy(Prop(rate, "is_insured")) THEN <<"- **Insured:** Yes">> ELSE <<>>)
  \o << "" >>

getShipmentRates(params, response) ==
  IF Truthy(response.error)
  THEN Ret("Error getting shipment rates: " \o Render(response.error))
  ELSE LET s == OptProp(response.data, "shipment")
       IN IF ~Truthy(s)
          THEN Ret("Shipment " \o Render(Prop(params, "id")) \o " not found.")
          ELSE IF NoneOf(Prop(s, "rates"))
          THEN Ret("No rates available for shipment " \o Render(Prop(params, "id"))
                     \o ". The shipment may already have postage purchased.")
          ELSE IF UnguardedLoopThrows(Prop(s, "rates"), RateThrows)
          THEN Throw(LoopFault(Prop(s, "rates"), "s.rates", RateThrows, RateFault))
          ELSE Ret(Join(<< "## Available Rates for Shipment " \o Render(Prop(s, "id")),
                           "",
                           "Destination: " \o Render(Prop(s, "to_city")) \o ", "
                             \o Render(Prop(s, "to_province_code")) \o ", "
                             \o Render(Prop(s, "to_country_code")),
                           "Package: " \o OrElse(s, "weight", "?") \o " " \o OrElse(s, "weight_unit", "g")
                             \o ", " \o OrElse(s, "size_x", "?") \o "x" \o OrElse(s, "size_y", "?")
                             \o "x" \o OrElse(s, "size_z", "?") \o " " \o OrElse(s, "size_unit", ""),
                           "" >>
                        \o Concat([i \in 1..Len(Elements(Prop(s, "rates"))) |->
                                     RatesEntry(Elements(Prop(s, "rates"))[i])]),
                        "\n"))

getShipmentLabels(params, response) ==
  IF Truthy(response.error)
  THEN Ret("Error getting shipment labels: " \o Render(response.error))
  ELSE LET s == OptProp(response.data, "shipment")
       IN IF ~Truthy(s)
          THEN Ret("Shipment " \o Render(Prop(params, "id")) \o " not found.")
          ELSE IF ~Truthy(Prop(s, "postage_label_png_url")) /\ ~Truthy(Prop(s, "postage_label_pdf_url"))
          THEN Ret("No labels available for shipment " \o Render(Prop(params, "id"))
                     \o ". Postage may not have been purchased yet.")
          ELSE Ret(Join(<< "## Labels for Shipment " \o Render(Prop(s, "id")),
                           "",
                           "Order: " \o OrElse(s, "order_id", "N/A"),
                           "Recipient: " \o Render(Prop(s, "to_name")) \o ", "
                             \o Render(Prop(s, "to_city")) \o ", " \o Render(Prop(s, "to_country_code")),
                           "Carrier: " \o OrElse(s, "carrier", "N/A"),
                           "Tracking: " \o OrElse(s, "carrier_tracking_code", "N/A"),
                           "",
                           "### Download URLs" >>
                        \o OptLine(s, "postage_label_png_url", "- **PNG:** ")
                        \o OptLine(s, "postage_label_pdf_url", "- **PDF:** ")
                        \o OptLine(s, "postage_label_zpl_url", "- **ZPL:** "),
                        "\n"))

LineItemsEntry(item) ==
  << "### " \o Render(Prop(item, "description")),
     "- **Quantity:** " \o Render(Prop(item, "quantity")),
     "- **Value:** $" \o Render(Prop(item, "value_amount")) \o " "
       \o ToUpperCase(Prop(item, "currency_code").s) >>
  \o OptLine(item, "hs_tariff_code", "- **HS Tariff Code:** ")
  \o OptLine(item, "sku_code", "- **SKU:** ")
  \o OptLine(item, "origin_country", "- **Country of Origin:** ")
  \o (IF Truthy(Prop(item, "weight"))
      THEN <<"- **Weight:** " \o Render(Prop(item, "weight")) \o " " \o OrElse(item, "weight_unit", "g")>>
      ELSE <<>>)
  \o (IF Truthy(Prop(item, "manufacturer_id"))
      THEN << "", "**Manufacturer:**", "  - ID: " \o Render(Prop(item, "manufacturer_id")) >>
           \o OptLine(item, "manufacturer_contact", "  - Contact: ")
           \o OptLine(item, "manufacturer_street", "  - Address: ")
           \o (IF Truthy(Prop(item, "manufacturer_city"))
               THEN <<"  - Location: " \o Render(Prop(item, "manufacturer_city")) \o ", "
                        \o OrElse(item, "manufacturer_province_code", "") \o " "
                        \o OrElse(item, "manufacturer_postal_code", "")>>
               ELSE <<>>)
           \o OptLine(item, "manufacturer_phone", "  - Phone: ")
           \o OptLine(item, "manufacturer_email", "  - Email: ")
      ELSE <<>>)
  \o << "" >>

getShipmentLineItems(params, response) ==
  IF Truthy(response.error)
  THEN Ret("Error getting line items: " \o Render(response.error))
  ELSE LET s == OptProp(response.data, "shipment")
       IN IF ~Truthy(s)
          THEN Ret("Shipment " \o Render(Prop(params, "id")) \o " not found.")
          ELSE IF NoneOf(Prop(s, "line_items"))
          THEN Ret("No line items found for shipment " \o Render(Prop(params, "id")) \o ".")
          ELSE IF UnguardedLoopThrows(Prop(s, "line_items"), LineItemThrows)
          THEN Throw(LoopFault(Prop(s, "line_items"), "s.line_items", LineItemThrows, LineItemFault))
          ELSE Ret(Join(<< "## Line Items for Shipment " \o Render(Prop(s, "id")),
                           "",
                           "Order: " \o OrElse(s, "order_id", "N/A"),
                           "Recipient: " \o Render(Prop(s, "to_name")) \o ", "
                             \o Render(Prop(s, "to_country_code")),
                           "" >>
                        \o Concat([i \in 1..Len(Elements(Prop(s, "line_items"))) |->
                                     LineItemsEntry(Elements(Prop(s, "line_items"))[i])]),
                        "\n"))

\* the body of createShipment: the six required fields, and each optional one that is truthy
createShipmentBody(params) ==
  LET keys == {"name", "address_1", "city", "province_code", "postal_code", "country_code"}
              \cup BodyField(params, "address_2") \cup BodyField(params, "phone")
              \cup BodyField(params, "email") \cup BodyField(params, "package_type")
              \cup BodyField(params, "size_unit") \cup BodyField(params, "size_x")
              \cup BodyField(params, "size_y") \cup BodyField(params, "size_z")
              \cup BodyField(params, "weight_unit") \cup BodyField(params, "weight")
              \cup BodyField(params, "description") \cup BodyField(params, "value")
              \cup BodyField(params, "value_currency") \cup BodyField(params, "order_id")
              \cup BodyField(params, "order_store") \cup BodyField(params, "postage_type")
  IN JObj([key \in keys |-> Prop(params, key)])

createShipmentCall(params) == ClientCall("post", "/shipments", createShipmentBody(params))

createShipment(params, response) ==
  IF Truthy(response.error)
  THEN Ret("Error creating shipment: " \o Render(response.error))
  ELSE LET s == OptProp(response.data, "shipment")
       IN IF ~Truthy(s)
          THEN Ret("Shipment created but no data returned.")
          ELSE Ret("Shipment created successfully!\n\nID: " \o Render(Prop(s, "id"))
                     \o "\nStatus: " \o Render(Prop(s, "status"))
                     \o "\nRecipient: " \o Render(Prop(s, "to_name")) \o ", "
                     \o Render(Prop(s, "to_city")) \o ", " \o Render(Prop(s, "to_country_code")))

deleteShipmentCall(params) ==
  ClientCall("delete", "/shipments/" \o Render(Prop(params, "id")), Undefined)

deleteShipment(params, response) ==
  IF Truthy(response.error)
  THEN Ret("Error deleting shipment: " \o Render(response.error)
             \o ". Note: Only unpaid shipments can be deleted.")
  ELSE Ret("Shipment " \o Render(Prop(params, "id")) \o " deleted successfully.")

buyPostageCall(params) ==
  ClientCall("patch", "/shipments/" \o Render(Prop(params, "id")) \o "/buy", Undefined)

buyPostage(params, response) ==
  IF Truthy(response.error)
  THEN Ret("Error purchasing postage: " \o Render(response.error))
  ELSE LET s == OptProp(response.data, "shipment")
       IN IF ~Truthy(s)
          THEN Ret("Postage purchase initiated. Poll the shipment status to check completion.")
          ELSE Ret(Join(<< "Postage purchased for shipment " \o Render(Prop(s, "id")) \o "!",
                           "",
                           "Status: " \o Render(Prop(s, "status")) >>
                        \o OptLine(s, "purchase_amount", "Total Cost: $")
                        \o OptLine(s, "carrier_tracking_code", "Tracking Number: "),
                        "\n"))

\* a refund sent with the method of a deletion
refundShipmentCallDeleting(params) ==
  ClientCall("delete", "/shipments/" \o Render(Prop(params, "id")) \o "/refund", Undefined)

refundShipmentCall(params) ==
  ClientCall("patch", "/shipments/" \o Render(Prop(params, "id")) \o "/refund", Undefined)

refundShipment(params, response) ==
  IF Truthy(response.error)
  THEN Ret("Error requesting refund: " \o Render(response.error))
  ELSE Ret("Refund requested for shipment " \o Render(Prop(params, "id"))
             \o ". Check shipment status for updates.")

\* the body of refreshRates: each dimension that is truthy; undefined when there is none
refreshRatesBody(params) ==
  LET keys == BodyField(params, "size_x") \cup BodyField(params, "size_y")
              \cup BodyField(params, "size_z") \cup BodyField(params, "weight")
  IN IF Cardinality(keys) > 0 THEN JObj([key \in keys |-> Prop(params, key)]) ELSE Undefined

refreshRatesCall(params) ==
  ClientCall("patch", "/shipments/" \o Render(Prop(params, "id")) \o "/refresh",
             refreshRatesBody(params))

refreshRates(params, response) ==
  IF Truthy(response.error)
  THEN Ret("Error refreshing rates: " \o Render(response.error))
  ELSE LET s == OptProp(response.data, "shipment")
       IN IF ~Truthy(s)
          THEN Ret("Rates refreshed for shipment " \o Render(Prop(params, "id")) \o ".")
          ELSE IF LoopThrows(Prop(s, "rates"), RateThrows)
          THEN Throw(LoopFault(Prop(s, "rates"), "s.rates", RateThrows, RateFault))
          ELSE Ret("Rates refreshed for shipment " \o Render(Prop(s, "id"))
                     \o ".\n\nCurrent postage type: " \o OrElse(s, "postage_type", "Not set")
                     \o (IF NonEmpty(Prop(s, "rates"))
                         THEN "\n\nAvailable rates:\n"
                              \o Join([i \in 1..Len(Elements(Prop(s, "rates"))) |->
                                   "- " \o Render(Prop(Elements(Prop(s, "rates"))[i], "postage_description"))
                                     \o ": $" \o RateCost(Elements(Prop(s, "rates"))[i]) \o "\n"], "")
                         ELSE ""))

countShipmentsCall(params) ==
  ClientCall("get", Endpoint("/shipments/count", << QueryParam(params, "status") >>), Undefined)

\* response.data?.count ?? 0
CountOf(response) ==
  IF Nullish(OptProp(response.data, "count")) THEN JNum(0) ELSE OptProp(response.data, "count")

\* params.status ? ` with status "${params.status}"` : ""
StatusText(params) ==
  IF Truthy(Prop(params, "status"))
  THEN " with status \"" \o Render(Prop(params, "status")) \o "\""
  ELSE ""

countShipments(params, response) ==
  IF Truthy(response.error)
  THEN Ret("Error counting shipments: " \o Render(response.error))
  ELSE Ret("Total shipments" \o StatusText(params) \o ": " \o Render(CountOf(response)))

(***************************************************************************)
(* src/tools/batches.ts                                                    *)
(***************************************************************************)
listBatchesCall(params) ==
  ClientCall("get",
             Endpoint("/batches",
                      << QueryParam(params, "limit"), QueryParam(params, "page"),
                         QueryParam(params, "status") >>),
             Undefined)

\* the formatting of one listed batch or return throws: b.id
ListedRecordThrows(b) == Nullish(b)

ListedBatch(b) ==
  Join(<< "ID: " \o Render(Prop(b, "id")), "Status: " \o Render(Prop(b, "status")) >>
       \o OptLine(b, "description", "Description: ")
       \o (IF Prop(b, "shipment_count").k # "undefined"
           THEN <<"Shipments: " \o Render(Prop(b, "shipment_count"))>> ELSE <<>>)
       \o << "Created: " \o Render(Prop(b, "created_at")) >>,
       "\n")

listBatches(params, response) ==
  IF Truthy(response.error)
  THEN Ret("Error listing batches: " \o Render(response.error))
  ELSE LET batches == IF Truthy(response.data) THEN response.data ELSE JArr(<<>>)
       IN IF Length(batches) = JNum(0)
          THEN Ret("No batches found.")
          ELSE IF batches.k # "arr"
          THEN Throw("batches.map is not a function")
          ELSE IF FirstWhere(batches.a, ListedRecordThrows) # 0
          THEN Throw(ReadOfNullish(FirstBad(batches, ListedRecordThrows), "id"))
          ELSE Ret("Found " \o ToString(Len(batches.a)) \o " batch(es):\n\n"
                     \o Join([i \in 1..Len(batches.a) |-> ListedBatch(batches.a[i])],
                             "\n\n---\n\n"))

\* the body of createBatch: always an object, with the description when it is truthy
createBatchBody(params) ==
  JObj([key \in BodyField(params, "description") |-> Prop(params, key)])

createBatchCall(params) == ClientCall("post", "/batches", createBatchBody(params))

\* a createBatch that reads b.id without looking whether the batch is there
createBatchUnguarded(params, response) ==
  IF Truthy(response.error)
  THEN Ret("Error creating batch: " \o Render(response.error))
  ELSE LET b == OptProp(response.data, "batch")
       IN IF Nullish(b)
          THEN Throw("Cannot read properties of undefined (reading 'id')")
          ELSE Ret("Batch created successfully!\n\nID: " \o Render(Prop(b, "id"))
                     \o "\nStatus: " \o Render(Prop(b, "status"))
                     \o (IF Truthy(Prop(b, "description"))
                         THEN "\nDescription: " \o Render(Prop(b, "description")) ELSE ""))

createBatch(params, response) ==
  IF Truthy(response.error)
  THEN Ret("Error creating batch: " \o Render(response.error))
  ELSE LET b == OptProp(response.data, "batch")
       IN IF ~Truthy(b)
          THEN Ret("Batch created but no data returned.")
          ELSE Ret("Batch created successfully!\n\nID: " \o Render(Prop(b, "id"))
                     \o "\nStatus: " \o Render(Prop(b, "status"))
                     \o (IF Truthy(Prop(b, "description"))
                         THEN "\nDescription: " \o Render(Prop(b, "description")) ELSE ""))

getBatchCall(params) ==
  ClientCall("get", "/batches/" \o Render(Prop(params, "id")), Undefined)

\* a getBatch that reads response.data.batch without the optional chaining
getBatchUnchained(params, response) ==
  IF Truthy(response.error)
  THEN Ret("Error getting batch: " \o Render(response.error))
  ELSE IF Nullish(response.data)
  THEN Throw(ReadOfNullish(response.data, "batch"))
  ELSE Ret("Batch " \o Render(Prop(params, "id")) \o " not found.")

getBatch(params, response) ==
  IF Truthy(response.error)
  THEN Ret("Error getting batch: " \o Render(response.error))
  ELSE LET b == OptProp(response.data, "batch")
       IN IF ~Truthy(b)
          THEN Ret("Batch " \o Render(Prop(params, "id")) \o " not found.")
          ELSE Ret(Join(<< "## Batch " \o Render(Prop(b, "id")),
                           "",
                           "**Status:** " \o Render(Prop(b, "status")) >>
                        \o OptLine(b, "description", "**Description:** ")
                        \o (IF Prop(b, "shipment_count").k # "undefined"
                            THEN <<"**Shipments:** " \o Render(Prop(b, "shipment_count"))>>
                            ELSE <<>>)
                        \o << "**Created:** " \o Render(Prop(b, "created_at")) >>,
                        "\n"))

deleteBatchCall(params) ==
  ClientCall("delete", "/batches/" \o Render(Prop(params, "id")), Undefined)

deleteBatch(params, response) ==
  IF Truthy(response.error)
  THEN Ret("Error deleting batch: " \o Render(response.error)
             \o ". Note: Only empty batches can be deleted.")
  ELSE Ret("Batch " \o Render(Prop(params, "id")) \o " deleted successfully.")

addToBatchCall(params) ==
  ClientCall("patch", "/shipments/add_to_batch",
             JObj([batch_id |-> Prop(params, "batch_id"),
                   shipment_ids |-> Prop(params, "shipment_ids")]))

addToBatch(params, response) ==
  IF Truthy(response.error)
  THEN Ret("Error adding shipments to batch: " \o Render(response.error))
  ELSE Ret("Successfully added " \o Render(Length(Prop(params, "shipment_ids")))
             \o " shipment(s) to batch " \o Render(Prop(params, "batch_id")) \o ".")

removeFromBatchCall(params) ==
  ClientCall("patch", "/shipments/remove_from_batch",
             JObj([shipment_ids |-> Prop(params, "shipment_ids")]))

removeFromBatch(params, response) ==
  IF Truthy(response.error)
  THEN Ret("Error removing shipments from batch: " \o Render(response.error))
  ELSE Ret("Successfully removed " \o Render(Length(Prop(params, "shipment_ids")))
             \o " shipment(s) from their batches.")

countBatchesCall(params) ==
  ClientCall("get", Endpoint("/batches/count", << QueryParam(params, "status") >>), Undefined)

countBatches(params, response) ==
  IF Truthy(response.error)
  THEN Ret("Error counting batches: " \o Render(response.error))
  ELSE Ret("Total batches" \o StatusText(params) \o ": " \o Render(CountOf(response)))

(***************************************************************************)
(* src/tools/returns.ts                                                    *)
(***************************************************************************)
listReturnsCall(params) ==
  ClientCall("get",
             Endpoint("/returns",
                      << QueryParam(params, "limit"), QueryParam(params, "page"),
                         QueryParam(params, "status"), QueryParam(params, "reason") >>),
             Undefined)

ListedReturn(r) ==
  Join(<< "ID: " \o Render(Prop(r, "id")), "Status: " \o Render(Prop(r, "status")) >>
       \o OptLine(r, "reason", "Reason: ")
       \o OptLine(r, "shipment_id", "Shipment ID: ")
       \o << "Created: " \o Render(Prop(r, "created_at")) >>,
       "\n")

listReturns(params, response) ==
  IF Truthy(response.error)
  THEN Ret("Error listing returns: " \o Render(response.error))
  ELSE LET returns == IF Truthy(response.data) THEN response.data ELSE JArr(<<>>)
       IN IF Length(returns) = JNum(0)
          THEN Ret("No returns found matching your criteria.")
          ELSE IF returns.k # "arr"
          THEN Throw("returns.map is not a function")
          ELSE IF FirstWhere(returns.a, ListedRecordThrows) # 0
          THEN Throw(ReadOfNullish(FirstBad(returns, ListedRecordThrows), "id"))
          ELSE Ret("Found " \o ToString(Len(returns.a)) \o " return(s):\n\n"
                     \o Join([i \in 1..Len(returns.a) |-> ListedReturn(returns.a[i])],
                             "\n\n---\n\n"))

(***************************************************************************)
(* src/tools/tracking.ts                                                   *)
(***************************************************************************)
trackShipmentCall(params) ==
  ClientCall("getPublicTracking", Render(Prop(params, "id")), Undefined)

\* the body of the loop over tracking events throws: event.location
TrackingEventThrows(event) == Nullish(event)

TrackingEventFault(event) == ReadOfNullish(event, "location")

TrackingEvent(event) ==
  "- **" \o Render(Prop(event, "date")) \o ":** " \o Render(Prop(event, "description"))
    \o (IF Truthy(Prop(event, "location"))
        THEN " (" \o Render(Prop(event, "location")) \o ")" ELSE "")

trackShipment(params, response) ==
  IF Truthy(response.error)
  THEN Ret("Error getting tracking: " \o Render(response.error))
  ELSE LET tracking == response.data
       IN IF ~Truthy(tracking)
          THEN Ret("No tracking information found for shipment " \o Render(Prop(params, "id")) \o ".")
          ELSE IF LoopThrows(Prop(tracking, "events"), TrackingEventThrows)
          THEN Throw(LoopFault(Prop(tracking, "events"), "tracking.events",
                               TrackingEventThrows, TrackingEventFault))
          ELSE Ret(Join(<< "## Tracking for Shipment " \o Render(Prop(params, "id")),
                           "",
                           "**Status:** " \o OrElse(tracking, "status", "Unknown") >>
                        \o OptLine(tracking, "carrier", "**Carrier:** ")
                        \o OptLine(tracking, "tracking_number", "**Tracking Number:** ")
                        \o OptLine(tracking, "estimated_delivery", "**Estimated Delivery:** ")
                        \o (IF NonEmpty(Prop(tracking, "events"))
                            THEN << "", "### Tracking History" >>
                                 \o [i \in 1..Len(Elements(Prop(tracking, "events"))) |->
                                       TrackingEvent(Elements(Prop(tracking, "events"))[i])]
                            ELSE <<>>),
                        "\n"))

(***************************************************************************)
(* src/index.ts: the switch of the CallToolRequestSchema handler           *)
(***************************************************************************)
\* a property of an advertised input schema: its name, its JSON type and its enum (empty: none)
Property(name, type, enum) == [name |-> name, type |-> type, enum |-> enum]

\* a descriptor of the catalog: the name, the properties and the required list of its
\* inputSchema, and whether its annotations set readOnlyHint or destructiveHint
Tool(name, properties, required, readOnlyHint, destructiveHint) ==
  [name |-> name, properties |-> properties, required |-> required,
   readOnlyHint |-> readOnlyHint, destructiveHint |-> destructiveHint]

\* const tools = [...]
tools ==
  << Tool("chitchats_list_shipments",
         << Property("limit", "number", <<>>),
            Property("page", "number", <<>>),
            Property("batch_id", "string", <<>>),
            Property("status", "string", <<>>),
            Property("from_date", "string", <<>>),
            Property("to_date", "string", <<>>),
            Property("search", "string", <<>>) >>,
         <<>>, TRUE, FALSE),
     Tool("chitchats_get_shipment",
         << Property("id", "string", <<>>) >>,
         <<"id">>, TRUE, FALSE),
     Tool("chitchats_get_rates",
         << Property("id", "string", <<>>) >>,
         <<"id">>, TRUE, FALSE),
     Tool("chitchats_get_labels",
         << Property("id", "string", <<>>) >>,
         <<"id">>, TRUE, FALSE),
     Tool("chitchats_get_line_items",
         << Property("id", "string", <<>>) >>,
         <<"id">>, TRUE, FALSE),
     Tool("chitchats_create_shipment",
         << Property("name", "string", <<>>),
            Property("address_1", "string", <<>>),
            Property("address_2", "string", <<>>),
            Property("city", "string", <<>>),
            Property("province_code", "string", <<>>),
            Property("postal_code", "string", <<>>),
            Property("country_code", "string", <<>>),
            Property("phone", "string", <<>>),
            Property("email", "string", <<>>),
            Property("package_type", "string", <<"parcel", "thick_envelope", "flat_rate_envelope">>),
            Property("size_unit", "string", <<"cm", "in">>),
            Property("size_x", "number", <<>>),
            Property("size_y", "number", <<>>),
            Property("size_z", "number", <<>>),
            Property("weight_unit", "string", <<"g", "kg", "oz", "lb">>),
            Property("weight", "number", <<>>),
            Property("description", "string", <<>>),
            Property("value", "number", <<>>),
            Property("value_currency", "string", <<"CAD", "USD">>),
            Property("order_id", "string", <<>>),
            Property("order_store", "string", <<>>),
            Property("postage_type", "string", <<>>) >>,
         <<"name", "address_1", "city", "province_code", "postal_code", "country_code">>, FALSE, FALSE),
     Tool("chitchats_delete_shipment",
         << Property("id", "string", <<>>) >>,
         <<"id">>, FALSE, TRUE),
     Tool("chitchats_buy_postage",
         << Property("id", "string", <<>>) >>,
         <<"id">>, FALSE, FALSE),
     Tool("chitchats_refund_shipment",
         << Property("id", "string", <<>>) >>,
         <<"id">>, FALSE, FALSE),
     Tool("chitchats_refresh_rates",
         << Property("id", "string", <<>>),
            Property("size_x", "number", <<>>),
            Property("size_y", "number", <<>>),
            Property("size_z", "number", <<>>),
            Property("weight", "number", <<>>) >>,
         <<"id">>, FALSE, FALSE),
     Tool("chitchats_count_shipments",
         << Property("status", "string", <<>>) >>,
         <<>>, TRUE, FALSE),
     Tool("chitchats_list_batches",
         << Property("limit", "number", <<>>),
            Property("page", "number", <<>>),
            Property("status", "string", <<"pending", "received">>) >>,
         <<>>, TRUE, FALSE),
     Tool("chitchats_create_batch",
         << Property("description", "string", <<>>) >>,
         <<>>, FALSE, FALSE),
     Tool("chitchats_get_batch",
         << Property("id", "string", <<>>) >>,
         <<"id">>, TRUE, FALSE),
     Tool("chitchats_delete_batch",
         << Property("id", "string", <<>>) >>,
         <<"id">>, FALSE, TRUE),
     Tool("chitchats_add_to_batch",
         << Property("batch_id", "string", <<>>),
            Property("shipment_ids", "array", <<>>) >>,
         <<"batch_id", "shipment_ids">>, FALSE, FALSE),
     Tool("chitchats_remove_from_batch",
         << Property("shipment_ids", "array", <<>>) >>,
         <<"shipment_ids">>, FALSE, FALSE),
     Tool("chitchats_count_batches",
         << Property("status", "string", <<"pending", "received">>) >>,
         <<>>, TRUE, FALSE),
     Tool("chitchats_list_returns",
         << Property("limit", "number", <<>>),
            Property("page", "number", <<>>),
            Property("status", "string", <<>>),
            Property("reason", "string", <<>>) >>,
         <<>>, TRUE, FALSE),
     Tool("chitchats_track_shipment",
         << Property("id", "string", <<>>) >>,
         <<"id">>, TRUE, FALSE) >>

\* a listing that leaves the last tool of the array out
ListToolsShort == SubSeq(tools, 1, Len(tools) - 1)

\* the ListToolsRequestSchema handler: return { tools }
ListTools == tools

\* the case labels of the switch, in its order
SwitchCases ==
  << "chitchats_list_shipments", "chitchats_get_shipment", "chitchats_get_rates",
     "chitchats_get_labels", "chitchats_get_line_items", "chitchats_create_shipment",
     "chitchats_delete_shipment", "chitchats_buy_postage", "chitchats_refund_shipment",
     "chitchats_refresh_rates", "chitchats_count_shipments", "chitchats_list_batches",
     "chitchats_create_batch", "chitchats_get_batch", "chitchats_delete_batch",
     "chitchats_add_to_batch", "chitchats_remove_from_batch", "chitchats_count_batches",
     "chitchats_list_returns", "chitchats_track_shipment" >>

\* name has a case in the switch (otherwise the default case answers)
HasCase(name) == \E i \in 1..Len(SwitchCases) : SwitchCases[i] = name

\* the schema the case of `name` parses the arguments with
SchemaOf(name) ==
  CASE name = "chitchats_list_shipments" -> ListShipmentsSchema
    [] name \in {"chitchats_get_shipment", "chitchats_get_rates",
                 "chitchats_get_labels", "chitchats_get_line_items"} -> GetShipmentSchema
    [] name = "chitchats_create_shipment" -> CreateShipmentSchema
    [] name = "chitchats_delete_shipment" -> DeleteShipmentSchema
    [] name = "chitchats_buy_postage" -> BuyPostageSchema
    [] name = "chitchats_refund_shipment" -> RefundShipmentSchema
    [] name = "chitchats_refresh_rates" -> RefreshRatesSchema
    [] name = "chitchats_count_shipments" -> CountShipmentsSchema
    [] name = "chitchats_list_batches" -> ListBatchesSchema
    [] name = "chitchats_create_batch" -> CreateBatchSchema
    [] name = "chitchats_get_batch" -> GetBatchSchema
    [] name = "chitchats_delete_batch" -> DeleteBatchSchema
    [] name = "chitchats_add_to_batch" -> AddToBatchSchema
    [] name = "chitchats_remove_from_batch" -> RemoveFromBatchSchema
    [] name = "chitchats_count_batches" -> CountBatchesSchema
    [] name = "chitchats_list_returns" -> ListReturnsSchema
    [] OTHER -> TrackShipmentSchema

\* the cases that parse `args || {}` instead of `args`
ParsesArgsOrEmpty(name) ==
  name \in {"chitchats_list_shipments", "chitchats_count_shipments", "chitchats_list_batches",
            "chitchats_create_batch", "chitchats_count_batches", "chitchats_list_returns"}

\* what the case of `name` hands to Schema.parse
ParseInput(name, args) ==
  IF ParsesArgsOrEmpty(name) /\ ~Truthy(args) THEN JObj(<<>>) ELSE args

\* the handler the case of `name` calls
HandlerOf(name) ==
  CASE name = "chitchats_list_shipments" -> "listShipments"
    [] name = "chitchats_get_shipment" -> "getShipment"
    [] name = "chitchats_get_rates" -> "getShipmentRates"
    [] name = "chitchats_get_labels" -> "getShipmentLabels"
    [] name = "chitchats_get_line_items" -> "getShipmentLineItems"
    [] name = "chitchats_create_shipment" -> "createShipment"
    [] name = "chitchats_delete_shipment" -> "deleteShipment"
    [] name = "chitchats_buy_postage" -> "buyPostage"
    [] name = "chitchats_refund_shipment" -> "refundShipment"
    [] name = "chitchats_refresh_rates" -> "refreshRates"
    [] name = "chitchats_count_shipments" -> "countShipments"
    [] name = "chitchats_list_batches" -> "listBatches"
    [] name = "chitchats_create_batch" -> "createBatch"
    [] name = "chitchats_get_batch" -> "getBatch"
    [] name = "chitchats_delete_batch" -> "deleteBatch"
    [] name = "chitchats_add_to_batch" -> "addToBatch"
    [] name = "chitchats_remove_from_batch" -> "removeFromBatch"
    [] name = "chitchats_count_batches" -> "countBatches"
    [] name = "chitchats_list_returns" -> "listReturns"
    [] OTHER -> "trackShipment"

\* the client call the handler awaits
HandlerCall(handler, params) ==
  CASE handler = "listShipments" -> listShipmentsCall(params)
    [] handler \in {"getShipment", "getShipmentRates",
                    "getShipmentLabels", "getShipmentLineItems"} -> getShipmentCall(params)
    [] handler = "createShipment" -> createShipmentCall(params)
    [] handler = "deleteShipment" -> deleteShipmentCall(params)
    [] handler = "buyPostage" -> buyPostageCall(params)
    [] handler = "refundShipment" -> refundShipmentCall(params)
    [] handler = "refreshRates" -> refreshRatesCall(params)
    [] handler = "countShipments" -> countShipmentsCall(params)
    [] handler = "listBatches" -> listBatchesCall(params)
    [] handler = "createBatch" -> createBatchCall(params)
    [] handler = "getBatch" -> getBatchCall(params)
    [] handler = "deleteBatch" -> deleteBatchCall(params)
    [] handler = "addToBatch" -> addToBatchCall(params)
    [] handler = "removeFromBatch" -> removeFromBatchCall(params)
    [] handler = "countBatches" -> countBatchesCall(params)
    [] handler = "listReturns" -> listReturnsCall(params)
    [] OTHER -> trackShipmentCall(params)

\* what the handler does with the ApiResponse: the text it returns or the fault it throws
HandlerResult(handler, params, response) ==
  CASE handler = "listShipments" -> listShipments(params, response)
    [] handler = "getShipment" -> getShipment(params, response)
    [] handler = "getShipmentRates" -> getShipmentRates(params, response)
    [] handler = "getShipmentLabels" -> getShipmentLabels(params, response)
    [] handler = "getShipmentLineItems" -> getShipmentLineItems(params, response)
    [] handler = "createShipment" -> createShipment(params, response)
    [] handler = "deleteShipment" -> deleteShipment(params, response)
    [] handler = "buyPostage" -> buyPostage(params, response)
    [] handler = "refundShipment" -> refundShipment(params, response)
    [] handler = "refreshRates" -> refreshRates(params, response)
    [] handler = "countShipments" -> countShipments(params, response)
    [] handler = "listBatches" -> listBatches(params, response)
    [] handler = "createBatch" -> createBatch(params, response)
    [] handler = "getBatch" -> getBatch(params, response)
    [] handler = "deleteBatch" -> deleteBatch(params, response)
    [] handler = "addToBatch" -> addToBatch(params, response)
    [] handler = "removeFromBatch" -> removeFromBatch(params, response)
    [] handler = "countBatches" -> countBatches(params, response)
    [] handler = "listReturns" -> listReturns(params, response)
    [] OTHER -> trackShipment(params, response)

\* the default case without its isError key
UnknownToolOutcomeUnflagged(name) ==
  [content |-> <<[type |-> "text", text |-> "Unknown tool: " \o name]>>, isError |-> Undefined]

\* the default case: { content: [{ type: "text", text: `Unknown tool: ${name}` }], isError: true }
UnknownToolOutcome(name) ==
  [content |-> <<[type |-> "text", text |-> "Unknown tool: " \o name]>>, isError |-> JBool(TRUE)]

\* a return that numbers its answers with the calls that returned before
ResultOutcomeNumbered(result) ==
  [content |-> <<[type |-> "text", text |-> result \o " #" \o ToString(Len(log))]>>,
   isError |-> Undefined]

\* the return after the switch: { content: [{ type: "text", text: result }] }, no isError key
ResultOutcome(result) ==
  [content |-> <<[type |-> "text", text |-> result]>>, isError |-> Undefined]

\* a catch block that answers with the bare message
CaughtOutcomeBare(error) ==
  [content |-> <<[type |-> "text", text |-> error.message]>>, isError |-> JBool(TRUE)]

\* the catch block: { content: [{ type: "text", text: `Error: ${message}` }], isError: true }
CaughtOutcome(error) ==
  [content |-> <<[type |-> "text",
                  text |-> "Error: " \o (IF error.isErrorObject THEN error.message
                                         ELSE "Unknown error")]>>,
   isError |-> JBool(TRUE)]

(***************************************************************************)
(* The inputs: tool names and arguments a caller may send, environments    *)
(* the process may start in, and responses the remote host may give        *)
(***************************************************************************)
\* the longest array of shipment ids among the arguments
MaxIds == 2
\* the largest number of records in a listing payload
MaxRecords == 2

\* names with no case in the switch
UnknownNames == {"chitchats_unknown", "list_shipments", ""}

Names == { SwitchCases[i] : i \in 1..Len(SwitchCases) } \cup UnknownNames

\* o with key f set to v, and o without key f
With(o, f, v) == [key \in DOMAIN o \cup {f} |-> IF key = f THEN v ELSE o[key]]
Without(o, f) == [key \in DOMAIN o \ {f} |-> o[key]]

\* arrays of 0..MaxIds shipment ids
IdArrays == { JArr([i \in 1..n |-> JStr("S" \o ToString(i))]) : n \in 0..MaxIds }

\* a value of the declared type of a field
ValidValue(fs) ==
  CASE fs.type = "string" -> JStr("S1")
    [] fs.type = "number" -> JNum(1)
    [] fs.type = "enum" -> JStr(fs.options[1])
    [] OTHER -> JArr(<<JStr("S1")>>)

\* the values tried for a field: of every JSON type, empty and zero ones, the bounds
\* of limit and page and their neighbours, every option of an enum
TestValues(schema, f) ==
  { JStr("S1"), JStr(""), JStr("a b"),
    JNum(0), JNum(1), JNum(1000), JNum(1001),
    JBool(TRUE), JNull, JArr(<<JStr("S1"), JNum(2)>>) }
  \cup IdArrays
  \cup UNION { { JStr(schema[i].options[j]) : j \in 1..Len(schema[i].options) } :
               i \in { n \in 1..Len(schema) : schema[n].name = f } }

\* the arguments with every required field set to a valid value
BaseArgs(schema) ==
  [f \in RequiredNames(schema) |->
     ValidValue(schema[CHOOSE i \in 1..Len(schema) : schema[i].name = f])]

\* the values tried for a field the schema does not declare
ExtraValues == {JStr("S1"), JNull}

\* the arguments tried for a tool: none, the base, the base with one declared field set
\* to a test value, the base with an undeclared field, the base without one required field
\* (alone and with an undeclared field)
ArgsOf(name) ==
  IF ~HasCase(name)
  THEN {Undefined, JObj(<<>>), JObj([id |-> JStr("S1")])}
  ELSE LET schema == SchemaOf(name)
           base == BaseArgs(schema)
       IN {Undefined, JObj(base)}
          \cup { JObj(With(base, f, v)) :
                   <<f, v>> \in UNION { {f} \X TestValues(schema, f) : f \in FieldNames(schema) } }
          \cup { JObj(With(base, "unknown_field", v)) : v \in ExtraValues }
          \cup { JObj(Without(base, f)) : f \in RequiredNames(schema) }
          \cup { JObj(With(Without(base, f), "unknown_field", JNull)) : f \in RequiredNames(schema) }

\* the process environments: both credentials set, the client id missing, the token missing
Environments ==
  { [CHITCHATS_CLIENT_ID |-> JStr("client1"), CHITCHATS_ACCESS_TOKEN |-> JStr("token1"),
     CHITCHATS_BASE_URL |-> Undefined],
    [CHITCHATS_CLIENT_ID |-> Undefined, CHITCHATS_ACCESS_TOKEN |-> JStr("token1"),
     CHITCHATS_BASE_URL |-> JStr("https://staging.chitchats.com")],
    [CHITCHATS_CLIENT_ID |-> JStr("client1"), CHITCHATS_ACCESS_TOKEN |-> Undefined,
     CHITCHATS_BASE_URL |-> Undefined] }

\* a settled fetch: rejected with a thrown value, or resolved with a response
\* (its status, its Retry-After header as headers.get reads it, its body as
\* response.json() parses it)
Rejected(thrown) ==
  [rejected |-> TRUE, thrown |-> thrown, status |-> 0, retryAfter |-> JNull,
   json |-> [ok |-> FALSE, value |-> Undefined]]
Resolved(status, retryAfter, json) ==
  [rejected |-> FALSE, thrown |-> Thrown(FALSE, ""), status |-> status,
   retryAfter |-> retryAfter, json |-> json]
NotJson == [ok |-> FALSE, value |-> Undefined]
Json(value) == [ok |-> TRUE, value |-> value]

GoodLineItem ==
  JObj([quantity |-> JNum(2), description |-> JStr("Mug"), value_amount |-> JStr("12.50"),
        currency_code |-> JStr("usd"), hs_tariff_code |-> JStr("6912.00")])
LineItemWithoutCurrency ==
  JObj([quantity |-> JNum(2), description |-> JStr("Mug"), value_amount |-> JStr("12.50")])
GoodRate ==
  JObj([postage_type |-> JStr("usps_first"), postage_description |-> JStr("USPS First-Class"),
        postage_carrier_type |-> JStr("usps"), payment_amount |-> JStr("5.10"),
        postage_fee |-> JStr("5.10")])
GoodEvent ==
  JObj([date |-> JStr("2024-01-02"), description |-> JStr("Received"), location |-> JStr("Toronto")])

\* a record that reads as a shipment, a batch or a return
Entity(i, extra) ==
  JObj([key \in {"id", "status", "to_name", "to_city", "to_province_code", "to_country_code",
                 "created_at"} \cup DOMAIN extra |->
          IF key \in DOMAIN extra THEN extra[key]
          ELSE CASE key = "id" -> JStr("E" \o ToString(i))
                 [] key = "status" -> JStr("ready")
                 [] key = "to_name" -> JStr("Ann")
                 [] key = "to_city" -> JStr("Austin")
                 [] key = "to_province_code" -> JStr("TX")
                 [] key = "to_country_code" -> JStr("US")
                 [] OTHER -> JStr("2024-01-01")])

\* a payload that reads as { shipment }, { batch }, { count } and as tracking data
Envelope(entity, events) ==
  JObj([shipment |-> entity, batch |-> entity, count |-> JNum(3),
        status |-> JStr("in_transit"), events |-> events])

\* the bodies tried for a 2xx response
SuccessBodies ==
  { NotJson, Json(JNull), Json(JStr("OK")), Json(JObj(<<>>)),
    Json(JArr(<<JNull>>)),
    Json(JArr(<<Entity(1, [line_items |-> JArr(<<JNull>>)])>>)),
    Json(Envelope(JNull, JArr(<<>>))),
    Json(Envelope(Entity(1, <<>>), Undefined)),
    Json(Envelope(Entity(1, [line_items |-> JArr(<<GoodLineItem>>), rates |-> JArr(<<GoodRate>>),
                             postage_label_png_url |-> JStr("https://l/1.png")]),
                  JArr(<<GoodEvent>>))),
    Json(Envelope(Entity(1, [line_items |-> JArr(<<LineItemWithoutCurrency>>)]), JArr(<<>>))),
    Json(Envelope(Entity(1, [rates |-> JArr(<<JNull>>)]), JArr(<<JNull>>))) }
  \cup { Json(JArr([i \in 1..n |-> Entity(i, [line_items |-> JArr(<<GoodLineItem>>)])])) :
         n \in 0..MaxRecords }

\* the bodies tried for a response that is not 2xx
ErrorBodies ==
  { NotJson, Json(JNull), Json(JStr("oops")), Json(JObj(<<>>)),
    Json(JObj([error |-> JStr("not found")])),
    Json(JObj([message |-> JStr("Validation failed")])),
    Json(JObj([error |-> JStr(""), message |-> JStr("Validation failed")])),
    Json(JObj([error |-> JStr("not found"), message |-> JStr("Validation failed")])) }

\* the Retry-After header as response.headers.get reads it: null when it is missing
RetryAfterValues == {JNull, JStr("30"), JStr("")}

Responses ==
  { Rejected(Thrown(TRUE, "fetch failed")), Rejected(Thrown(TRUE, "")),
    Rejected(Thrown(FALSE, "")) }
  \cup { Resolved(200, JNull, b) : b \in SuccessBodies }
  \cup { Resolved(201, JNull, Json(Envelope(Entity(1, <<>>), Undefined))) }
  \cup { Resolved(204, JNull, b) : b \in {NotJson, Json(JObj(<<>>))} }
  \cup { Resolved(404, JNull, b) : b \in ErrorBodies }
  \cup { Resolved(s, JNull, b) :
           s \in {301, 500},
           b \in {NotJson, Json(JObj(<<>>)), Json(JObj([error |-> JStr("fetch failed")]))} }
  \cup { Resolved(429, r, NotJson) : r \in RetryAfterValues }
  \cup { Resolved(429, JStr("30"), Json(JObj([error |-> JStr("slow down")]))) }

(***************************************************************************)
(* The state: the environment the process started in, and the tool calls   *)
(* in flight, one per slot of the host.  A call's record holds the locals  *)
(* of its CallToolRequestSchema handler and what it did so far.            *)
(***************************************************************************)
vars == <<env, calls, log>>

\* the calls the host can have in flight
Slots == {1, 2}
\* a host that issues one call at a time uses one slot
OneAtATime == {1}

NoFault == [threw |-> FALSE, isErrorObject |-> FALSE, message |-> "", from |-> ""]
NoOutcome == [content |-> <<>>, isError |-> Undefined]
NoResponse == Resolved(0, JNull, NotJson)

\* a slot with no call in it
Idle ==
  [pc |-> "idle", name |-> "", args |-> Undefined, handler |-> "", params |-> Undefined,
   call |-> ClientCall("", "", Undefined), requests |-> <<>>, response |-> NoResponse,
   settled |-> FALSE, clientThrew |-> FALSE, result |-> ApiResponse(Undefined, Undefined, 0),
   bodyRead |-> FALSE,
   fault |-> NoFault, returned |-> FALSE, text |-> "", outcome |-> NoOutcome]

Init ==
  /\ env \in Environments
  /\ calls = [s \in Slots |-> Idle]
  /\ log = <<>>

\* a client that calls fetch twice for a call
OutgoingTwice(s, call) == <<HttpRequestOf(env, call), HttpRequestOf(env, call)>>

\* a client that does not call fetch when another call in flight has sent the
\* same request
OutgoingCoalesced(s, call) ==
  IF \E t \in Slots \ {s} : calls[t].pc = "awaiting" /\ calls[t].call = call
  THEN <<>>
  ELSE <<HttpRequestOf(env, call)>>

\* the requests the client method sends for the call of slot s: it calls fetch,
\* whatever the other calls in flight are
Outgoing(s, call) == <<HttpRequestOf(env, call)>>

\* the default case of the switch: no handler runs
CallUnknownTool(s, name, args) ==
  /\ calls[s].pc = "idle"
  /\ ~HasCase(name)
  /\ calls' = [calls EXCEPT ![s] =
       [Idle EXCEPT !.pc = "done", !.name = name, !.args = args,
                    !.outcome = UnknownToolOutcome(name)]]
  /\ UNCHANGED <<env, log>>

\* a case whose Schema.parse throws: the catch block answers
CallRejected(s, name, args) ==
  /\ calls[s].pc = "idle"
  /\ HasCase(name)
  /\ LET parsed == ZodParse(SchemaOf(name), ParseInput(name, args))
     IN /\ parsed.threw
        /\ calls' = [calls EXCEPT ![s] =
             [Idle EXCEPT !.pc = "done", !.name = name, !.args = args,
                          !.fault = [threw |-> TRUE, isErrorObject |-> parsed.isErrorObject,
                                     message |-> parsed.message, from |-> "parse"],
                          !.outcome = CaughtOutcome(parsed)]]
  /\ UNCHANGED <<env, log>>

\* a case whose Schema.parse succeeds: the handler runs up to its await of the
\* client, which sends the request
CallAccepted(s, name, args) ==
  /\ calls[s].pc = "idle"
  /\ HasCase(name)
  /\ LET parsed == ZodParse(SchemaOf(name), ParseInput(name, args))
         call == HandlerCall(HandlerOf(name), parsed.params)
     IN /\ ~parsed.threw
        /\ calls' = [calls EXCEPT ![s] =
             [Idle EXCEPT !.pc = "awaiting", !.name = name, !.args = args,
                          !.handler = HandlerOf(name), !.params = parsed.params,
                          !.call = call, !.requests = Outgoing(s, call)]]
  /\ UNCHANGED <<env, log>>

\* the handler returns a text: the return after the switch answers
HandlerReturns(s, response, got, done) ==
  /\ calls[s].pc = "awaiting"
  /\ /\ ~done.threw
     /\ calls' = [calls EXCEPT ![s] =
             [@ EXCEPT !.pc = "done", !.response = response, !.settled = TRUE,
                       !.requests = @ \o FetchesAfter(env, calls[s].call, response),
                       !.clientThrew = got.threw, !.result = got.result,
                       !.bodyRead = got.bodyRead,
                       !.returned = TRUE, !.text = done.text,
                       !.outcome = ResultOutcome(done.text)]]
  /\ UNCHANGED <<env, log>>

\* the handler throws: the catch block answers
HandlerThrows(s, response, got, done) ==
  /\ calls[s].pc = "awaiting"
  /\ /\ done.threw
     /\ calls' = [calls EXCEPT ![s] =
             [@ EXCEPT !.pc = "done", !.response = response, !.settled = TRUE,
                       !.requests = @ \o FetchesAfter(env, calls[s].call, response),
                       !.clientThrew = got.threw, !.result = got.result,
                       !.bodyRead = got.bodyRead,
                       !.fault = [threw |-> TRUE, isErrorObject |-> done.isErrorObject,
                                  message |-> done.message, from |-> "handler"],
                       !.outcome = CaughtOutcome(done)]]
  /\ UNCHANGED <<env, log>>

\* the handler from its `await client...` on: a fault of the client propagates,
\* an ApiResponse goes to the rest of the handler
Awaited(handler, params, got) ==
  IF got.threw
  THEN [threw |-> TRUE, isErrorObject |-> got.thrown.isErrorObject,
        message |-> got.thrown.message, text |-> ""]
  ELSE HandlerResult(handler, params, got.result)

\* fetch settles with `response`: the client method completes (`got`) and the
\* handler returns a text or throws (`done`)
FetchSettles(s, response) ==
  LET got == ClientResult(calls[s].call, response)
      done == Awaited(calls[s].handler, calls[s].params, got)
  IN \/ HandlerReturns(s, response, got, done)
     \/ HandlerThrows(s, response, got, done)

\* the caller has the outcome; the call's locals are gone
Return(s) ==
  /\ calls[s].pc = "done"
  /\ calls' = [calls EXCEPT ![s] = Idle]
  /\ UNCHANGED <<env, log>>

Next ==
  \E s \in OneAtATime :
    \/ \E name \in Names : \E args \in ArgsOf(name) : CallUnknownTool(s, name, args)
    \/ \E name \in Names : \E args \in ArgsOf(name) : CallRejected(s, name, args)
    \/ \E name \in Names : \E args \in ArgsOf(name) : CallAccepted(s, name, args)
    \/ \E response \in Responses : FetchSettles(s, response)
    \/ Return(s)

Spec == Init /\ [][Next]_vars

(***************************************************************************)
(* A host with two calls in flight, observed through the log of the calls  *)
(* that returned.  The calls and the responses are few, so that the same   *)
(* call comes back with the same response.                                 *)
(***************************************************************************)
\* the largest number of returned calls the log keeps
MaxLog == 2

\* what the log keeps of a call: what went in and what came out
Entry(c) ==
  [name |-> c.name, args |-> c.args, settled |-> c.settled, response |-> c.response,
   requests |-> c.requests, outcome |-> c.outcome]

ConcurrentCalls ==
  { <<"chitchats_get_shipment", JObj([id |-> JStr("S1")])>>,
    <<"chitchats_get_shipment", Undefined>>,
    <<"chitchats_delete_shipment", JObj([id |-> JStr("S1")])>>,
    <<"chitchats_unknown", Undefined>> }

ConcurrentResponses ==
  { Resolved(200, JNull, Json(Envelope(Entity(1, <<>>), Undefined))),
    Resolved(200, JNull, Json(Envelope(Entity(1, [line_items |-> JArr(<<LineItemWithoutCurrency>>)]),
                                       Undefined))),
    Resolved(404, JNull, Json(JObj([error |-> JStr("not found")]))) }

\* the caller has the outcome, and the observer logs the call
ReturnLogged(s) ==
  /\ calls[s].pc = "done"
  /\ calls' = [calls EXCEPT ![s] = Idle]
  /\ log' = IF Len(log) < MaxLog THEN Append(log, Entry(calls[s])) ELSE log
  /\ UNCHANGED env

InitConcurrent ==
  /\ env = [CHITCHATS_CLIENT_ID |-> JStr("client1"), CHITCHATS_ACCESS_TOKEN |-> JStr("token1"),
            CHITCHATS_BASE_URL |-> Undefined]
  /\ calls = [s \in Slots |-> Idle]
  /\ log = <<>>

NextConcurrent ==
  \E s \in Slots :
    \/ \E c \in ConcurrentCalls : CallUnknownTool(s, c[1], c[2])
    \/ \E c \in ConcurrentCalls : CallRejected(s, c[1], c[2])
    \/ \E c \in ConcurrentCalls : CallAccepted(s, c[1], c[2])
    \/ \E response \in ConcurrentResponses : FetchSettles(s, response)
    \/ ReturnLogged(s)

SpecConcurrent == InitConcurrent /\ [][NextConcurrent]_vars

(***************************************************************************)
(* Properties.  A call that has left "idle" keeps its name and arguments;  *)
(* a call that is "done" has its outcome; a call that has `settled` has    *)
(* the response of fetch and the ApiResponse the client made of it.        *)
(***************************************************************************)
Started(c) == c.pc # "idle"
Done(c) == c.pc = "done"
IsError(c) == c.outcome.isError = JBool(TRUE)
OneText(c) == Len(c.outcome.content) = 1 /\ c.outcome.content[1].type = "text"
TextOf(c) == c.outcome.content[1].text
NoHttp(c) == c.requests = <<>> /\ ~c.settled
Authenticated(c) == c.settled /\ c.call.via # "getPublicTracking"

\* C1: a call whose name is not a registered tool name is answered, whatever its
\* arguments, with isError true and the text "Unknown tool: <name>"; no handler
\* runs and no HTTP request is sent
UnknownToolIsAnswered ==
  \A s \in Slots :
    (Started(calls[s]) /\ ~HasCase(calls[s].name)) =>
      /\ Done(calls[s])
      /\ IsError(calls[s])
      /\ OneText(calls[s])
      /\ TextOf(calls[s]) = "Unknown tool: " \o calls[s].name
      /\ calls[s].handler = ""
      /\ NoHttp(calls[s])

\* an unknown name called with an arguments object
UnknownToolCalled ==
  \E s \in Slots :
    /\ Done(calls[s])
    /\ calls[s].name = "chitchats_unknown"
    /\ calls[s].args = JObj([id |-> JStr("S1")])

\* the arguments leave out field f (no arguments object leaves out every field)
Omits(args, f) == args.k # "obj" \/ f \notin DOMAIN args.o

\* C2: a call of a registered tool whose arguments omit a required field (or that
\* has no arguments object) is answered with isError true, and no HTTP request is sent
MissingRequiredFieldIsRefused ==
  \A s \in Slots :
    (/\ Started(calls[s])
     /\ HasCase(calls[s].name)
     /\ \E f \in RequiredNames(SchemaOf(calls[s].name)) : Omits(calls[s].args, f)) =>
      /\ Done(calls[s])
      /\ IsError(calls[s])
      /\ NoHttp(calls[s])

\* create_shipment called with an object that has the other required fields but not city
MissingRequiredFieldCalled ==
  \E s \in Slots :
    /\ Done(calls[s])
    /\ calls[s].name = "chitchats_create_shipment"
    /\ calls[s].args.k = "obj"
    /\ DOMAIN calls[s].args.o = RequiredNames(CreateShipmentSchema) \ {"city"}

\* the value v of a declared field has the wrong type, is outside the enumeration
\* or is outside the bounds
Offends(fs, v) ==
  CASE fs.type = "string" -> v.k # "str"
    [] fs.type = "number" ->
         \/ v.k # "num"
         \/ (fs.hasMin /\ v.n < fs.min)
         \/ (fs.hasMax /\ v.n > fs.max)
    [] fs.type = "enum" ->
         \/ v.k # "str"
         \/ \A i \in 1..Len(fs.options) : fs.options[i] # v.s
    [] OTHER ->
         \/ v.k # "arr"
         \/ \E i \in 1..Len(v.a) : v.a[i].k # "str"

\* the text has an issue whose path starts with field f
NamesField(text, f) == Contains(text, "\"path\":[\"" \o f \o "\"")

\* C3: a call of a registered tool in which a declared field is present with the
\* wrong type, outside its enumeration or outside its bounds is answered with
\* isError true and a text that names the field, and no HTTP request is sent
OffendingFieldIsRefusedByName ==
  \A s \in Slots :
    (Started(calls[s]) /\ HasCase(calls[s].name) /\ calls[s].args.k = "obj") =>
      \A i \in 1..Len(SchemaOf(calls[s].name)) :
        LET fs == SchemaOf(calls[s].name)[i]
        IN (fs.name \in DOMAIN calls[s].args.o /\ Offends(fs, calls[s].args.o[fs.name])) =>
             /\ Done(calls[s])
             /\ IsError(calls[s])
             /\ NamesField(TextOf(calls[s]), fs.name)
             /\ NoHttp(calls[s])

\* list_shipments called with limit 1001
OffendingFieldCalled ==
  \E s \in Slots :
    /\ Done(calls[s])
    /\ calls[s].name = "chitchats_list_shipments"
    /\ calls[s].args = JObj([limit |-> JNum(1001)])

\* the client returned a success: no error key and a 2xx status
RemoteCallSucceeded(c) ==
  c.settled /\ ~c.clientThrew /\ c.result.error = Undefined /\ ResponseOk(c.result.status)

\* C4: a call of a registered tool whose arguments pass validation and whose
\* remote call succeeds is answered with one text and isError false
ValidCallWithRemoteSuccessIsNoError ==
  \A s \in Slots :
    (Done(calls[s]) /\ RemoteCallSucceeded(calls[s])) =>
      /\ OneText(calls[s])
      /\ ~IsError(calls[s])

\* the client returned a rate limit, a domain error or a transport failure
RemoteCallFailed(c) == c.settled /\ (c.clientThrew \/ c.result.error # Undefined)

\* the handler returned the text it formats for a success of the remote call
CompletedWithSuccessText(c) == c.returned /\ ~RemoteCallFailed(c)

\* C5: the outcome's isError is true exactly when the call did not complete with
\* a success text of a handler; a remote call that ended in a rate limit, a domain
\* error or a transport failure is answered with isError true
IsErrorIffNoSuccessText ==
  \A s \in Slots :
    Done(calls[s]) => (IsError(calls[s]) <=> ~CompletedWithSuccessText(calls[s]))

\* C6: every fault raised by the validation or by a handler is caught and
\* answered with exactly one text "Error: <message>" and isError true; every
\* answer is one text with an error flag that is true or not set
FaultIsCaughtAsErrorOutcome ==
  \A s \in Slots :
    /\ Done(calls[s]) =>
         /\ OneText(calls[s])
         /\ calls[s].outcome.isError \in {JBool(TRUE), Undefined}
    /\ calls[s].fault.threw =>
         /\ Done(calls[s])
         /\ IsError(calls[s])
         /\ TextOf(calls[s]) =
              "Error: " \o (IF calls[s].fault.isErrorObject THEN calls[s].fault.message
                            ELSE "Unknown error")

\* a handler threw on the payload of a 200 response
HandlerFaultCaught ==
  \E s \in Slots :
    /\ Done(calls[s])
    /\ calls[s].fault.threw
    /\ calls[s].fault.from = "handler"
    /\ calls[s].response.status = 200

\* the retry hint a rate-limited result carries: what its message has between
\* "Rate limited. Retry after " and " seconds."
RetryHint(result) ==
  SubSeq(result.error.s, Len("Rate limited. Retry after ") + 1,
         Len(result.error.s) - Len(" seconds."))

\* fetch resolved with status 429 for a call of request
RateLimited(c) == Authenticated(c) /\ ~c.response.rejected /\ c.response.status = 429

\* C7 as stated: a 429 response gives a result with status 429 whose retry hint is
\* the value of the Retry-After header when the header is present, and no
\* number when the header is missing
RetryHintIsHeaderWhenPresent ==
  \A s \in Slots :
    RateLimited(calls[s]) =>
      /\ calls[s].result.status = 429
      /\ calls[s].response.retryAfter # JNull =>
           RetryHint(calls[s].result) = calls[s].response.retryAfter.s
      /\ calls[s].response.retryAfter = JNull =>
           RetryHint(calls[s].result) = "unknown"

\* C7 amended: a 429 response gives a result with status 429, no payload, and a
\* retry hint that is the value of the Retry-After header when the header is
\* present and not empty, and the word "unknown" (no number) when the header is
\* missing or empty
RetryHintIsHeaderWhenNotEmpty ==
  \A s \in Slots :
    RateLimited(calls[s]) =>
      /\ calls[s].result.status = 429
      /\ calls[s].result.data = Undefined
      /\ ~calls[s].clientThrew
      /\ Truthy(calls[s].response.retryAfter) =>
           RetryHint(calls[s].result) = calls[s].response.retryAfter.s
      /\ ~Truthy(calls[s].response.retryAfter) =>
           RetryHint(calls[s].result) = "unknown"

\* a 429 response with Retry-After: 30
RateLimitedWithHint ==
  \E s \in Slots :
    /\ RateLimited(calls[s])
    /\ calls[s].response.retryAfter = JStr("30")
    /\ RetryHint(calls[s].result) = "30"

\* C8: a 204 response to a call of request gives a result with status 204, no
\* payload and no error, and response.json() is not called
NoContentIsEmptySuccess ==
  \A s \in Slots :
    (Authenticated(calls[s]) /\ ~calls[s].response.rejected /\ calls[s].response.status = 204) =>
      /\ ~calls[s].clientThrew
      /\ calls[s].result = ApiResponse(Undefined, Undefined, 204)
      /\ ~calls[s].bodyRead

\* a 204 response whose body is not JSON
NoContentReceived ==
  \E s \in Slots :
    /\ Authenticated(calls[s])
    /\ ~calls[s].response.rejected
    /\ calls[s].response.status = 204
    /\ ~calls[s].response.json.ok

\* the message C9 prefers for a body: its error field, else its message field,
\* else "HTTP <status>"
PreferredMessage(json, status) ==
  IF json.ok /\ Truthy(OptProp(json.value, "error")) THEN OptProp(json.value, "error")
  ELSE IF json.ok /\ Truthy(OptProp(json.value, "message")) THEN OptProp(json.value, "message")
  ELSE JStr("HTTP " \o ToString(status))

\* C9: a response to a call of request whose status is not 2xx and not 429 gives a
\* result with that status and the message the body's error field, else its
\* message field, else "HTTP <status>"
NotOkIsDomainErrorWithStatus ==
  \A s \in Slots :
    (/\ Authenticated(calls[s])
     /\ ~calls[s].response.rejected
     /\ ~ResponseOk(calls[s].response.status)
     /\ calls[s].response.status # 429) =>
      /\ calls[s].result.status = calls[s].response.status
      /\ calls[s].result.error =
           PreferredMessage(calls[s].response.json, calls[s].response.status)

\* fetch rejected, or response.json() was called on a body that is not JSON
TransportFailed(c) == c.settled /\ (c.response.rejected \/ (c.bodyRead /\ ~c.response.json.ok))

\* C10: request and getPublicTracking return an ApiResponse whatever fetch
\* does and never throw; a rejected fetch or a body that is not JSON gives a
\* result with an error message and no payload
ClientAlwaysReturnsResult ==
  \A s \in Slots :
    calls[s].settled =>
      /\ ~calls[s].clientThrew
      /\ TransportFailed(calls[s]) =>
           /\ calls[s].result.error.k = "str"
           /\ calls[s].result.data = Undefined
           /\ calls[s].response.rejected =>
                calls[s].result.error =
                  JStr(IF calls[s].response.thrown.isErrorObject
                       THEN calls[s].response.thrown.message ELSE "Unknown error")

\* the public tracking page answered with a body that is not JSON
TrackingBodyMalformed ==
  \E s \in Slots :
    /\ calls[s].settled
    /\ calls[s].call.via = "getPublicTracking"
    /\ ~calls[s].response.rejected
    /\ ~calls[s].response.json.ok
    /\ calls[s].result.error.k = "str"

\* fetch resolved and the body, if it was read, parsed: the result is made of a
\* response of the remote host
FromRemoteResponse(r) == ~r.rejected /\ (r.json.ok \/ r.status \in {204, 429})

\* C11: the result of a network or parse failure carries no status code: it is
\* never the result that some response of the remote host gives
TransportFailureHasNoStatus ==
  \A s \in Slots :
    TransportFailed(calls[s]) =>
      \A r \in Responses :
        FromRemoteResponse(r) => ClientResult(calls[s].call, r).result # calls[s].result

\* !CLIENT_ID || !ACCESS_TOKEN
CredentialsMissing(e) == ~Truthy(CLIENT_ID(e)) \/ ~Truthy(ACCESS_TOKEN(e))

\* the handler of the call has called get, post, patch or delete
CalledAuthenticated(c) == c.handler # "" /\ c.call.via # "getPublicTracking"

\* C12: when the client identifier or the access token is missing from the
\* environment, a call of get, post, patch or delete sends no HTTP request and
\* returns a result with an error
MissingCredentialsSendNothing ==
  \A s \in Slots :
    (CredentialsMissing(env) /\ CalledAuthenticated(calls[s])) =>
      /\ calls[s].requests = <<>>
      /\ calls[s].settled => calls[s].result.error # Undefined

\* C13: a call of get, post, patch, delete or getPublicTracking sends at most one
\* HTTP request, and exactly one once fetch has settled, whatever the outcome
\* (429, 5xx, another status that is not 2xx, a rejected fetch)
ClientNeverRetries ==
  \A s \in Slots :
    /\ Len(calls[s].requests) <= 1
    /\ calls[s].settled => Len(calls[s].requests) = 1

\* a call answered with 429 that has sent its one request
RateLimitedOnce ==
  \E s \in Slots :
    /\ calls[s].settled
    /\ ~calls[s].response.rejected
    /\ calls[s].response.status = 429
    /\ Len(calls[s].requests) = 1

\* the kind of result an ApiResponse is: an error (rate limited when its status is
\* 429), an empty success, or a success with a payload
KindOf(result) ==
  IF result.error # Undefined
  THEN (IF result.status = 429 THEN "rateLimited" ELSE "error")
  ELSE IF result.data = Undefined THEN "emptySuccess"
  ELSE "success"

\* C14: for every response and every rejected fetch, getPublicTracking returns
\* the kind of result that request returns for it
TrackingNormalizesAsRequest ==
  \A s \in Slots :
    (calls[s].settled /\ calls[s].call.via = "getPublicTracking") =>
      /\ ~calls[s].clientThrew
      /\ KindOf(calls[s].result) = KindOf(request(calls[s].response).result)

\* the one request of a call whose handler has called the client
RequestSent(c) == c.requests[1]

\* the names of the headers of a request
HeaderNames(req) == IF req.headers = <<>> THEN {} ELSE DOMAIN req.headers

\* C15: a request sent by get, post, patch or delete has the Authorization
\* header, with the configured access token as its value, and the URL
\* <base>/api/v1/clients/<client id><endpoint>; the request sent by
\* getPublicTracking has no Authorization header and the URL
\* <base>/tracking/<shipment id>.json, without the account prefix
RequestsCarryCredentialAndPrefix ==
  \A s \in Slots :
    calls[s].handler # "" =>
      IF calls[s].call.via # "getPublicTracking"
      THEN /\ "Authorization" \in HeaderNames(RequestSent(calls[s]))
           /\ Truthy(ACCESS_TOKEN(env)) =>
                RequestSent(calls[s]).headers.Authorization = ACCESS_TOKEN(env).s
           /\ Truthy(CLIENT_ID(env)) =>
                RequestSent(calls[s]).url =
                  BASE_URL(env) \o "/api/v1/clients/" \o CLIENT_ID(env).s \o calls[s].call.endpoint
      ELSE /\ "Authorization" \notin HeaderNames(RequestSent(calls[s]))
           /\ RequestSent(calls[s]).url =
                BASE_URL(env) \o "/tracking/" \o calls[s].params.o.id.s \o ".json"
           /\ ~Contains(RequestSent(calls[s]).url, "/api/v1/clients/")

\* a PATCH sent with the configured token to the account's prefix
AuthenticatedPatchSent ==
  \E s \in Slots :
    /\ calls[s].handler # ""
    /\ calls[s].call.via = "patch"
    /\ RequestSent(calls[s]).headers.Authorization = "token1"
    /\ Contains(RequestSent(calls[s]).url, "/api/v1/clients/client1/shipments/")

\* C16: a request sent by get, post, patch or delete has the Content-Type header
\* and a body exactly when the caller passed a body, and then the body is the
\* caller's; a request made without a body has neither
ContentTypeIffBody ==
  \A s \in Slots :
    CalledAuthenticated(calls[s]) =>
      /\ ("ContentType" \in HeaderNames(RequestSent(calls[s]))) <=> (calls[s].call.body # Undefined)
      /\ RequestSent(calls[s]).body = calls[s].call.body
      /\ "ContentType" \in HeaderNames(RequestSent(calls[s])) =>
           RequestSent(calls[s]).headers.ContentType = "application/json"

\* refresh_rates called with no dimension: a PATCH without body and without Content-Type
PatchWithoutBodySent ==
  \E s \in Slots :
    /\ calls[s].handler = "refreshRates"
    /\ calls[s].call.body = Undefined
    /\ RequestSent(calls[s]).method = "PATCH"
    /\ "ContentType" \notin HeaderNames(RequestSent(calls[s]))

\* the names of the optional fields of a schema
OptionalNames(schema) == FieldNames(schema) \ RequiredNames(schema)

\* the request of the call carries field f: as a key of its body, with the value
\* of the parameter, or as a key of its query string
Forwarded(c, f) ==
  \/ /\ c.call.body # Undefined
     /\ f \in DOMAIN c.call.body.o
     /\ c.call.body.o[f] = c.params.o[f]
  \/ Contains(c.call.endpoint, "?" \o f \o "=")
  \/ Contains(c.call.endpoint, "&" \o f \o "=")

\* C17: an optional field is in the outgoing request (query string or body)
\* exactly when it is in the validated arguments, empty and zero values included
OptionalFieldForwardedIffPresent ==
  \A s \in Slots :
    calls[s].handler # "" =>
      \A f \in OptionalNames(SchemaOf(calls[s].name)) :
        Forwarded(calls[s], f) <=> f \in DOMAIN calls[s].params.o

\* the arguments without the fields the schema does not declare
Declared(schema, args) == JObj([f \in DOMAIN args.o \cap FieldNames(schema) |-> args.o[f]])

\* the arguments have a field the schema of the tool does not declare
HasExtraField(c) ==
  HasCase(c.name) /\ c.args.k = "obj" /\ ~(DOMAIN c.args.o \subseteq FieldNames(SchemaOf(c.name)))

\* C18: the fields of the arguments that the schema does not declare are
\* ignored: the call is refused exactly when it is refused without them, and the
\* parameters, the request and the outcome are those of the call without them
ExtraFieldsAreIgnored ==
  \A s \in Slots :
    (Started(calls[s]) /\ HasExtraField(calls[s])) =>
      LET c == calls[s]
          parsed == ZodParse(SchemaOf(c.name), ParseInput(c.name, Declared(SchemaOf(c.name), c.args)))
          call == HandlerCall(HandlerOf(c.name), parsed.params)
      IN /\ (c.fault.threw /\ c.fault.from = "parse") <=> parsed.threw
         /\ parsed.threw => c.outcome = CaughtOutcome(parsed)
         /\ ~parsed.threw =>
              /\ c.params = parsed.params
              /\ c.requests = <<HttpRequestOf(env, call)>>
              /\ Done(c) =>
                   LET done == Awaited(HandlerOf(c.name), parsed.params,
                                       ClientResult(call, c.response))
                   IN c.outcome = IF done.threw THEN CaughtOutcome(done)
                                  ELSE ResultOutcome(done.text)

\* a call with an undeclared field whose handler returned a text
ExtraFieldCallAnswered ==
  \E s \in Slots :
    /\ Done(calls[s])
    /\ HasExtraField(calls[s])
    /\ "unknown_field" \in DOMAIN calls[s].args.o
    /\ calls[s].returned

\* the listing handlers and their "no results" texts
ListingHandlers == {"listShipments", "listBatches", "listReturns"}
NoResultsText(handler) ==
  CASE handler = "listShipments" -> "No shipments found matching your criteria."
    [] handler = "listBatches" -> "No batches found."
    [] OTHER -> "No returns found matching your criteria."

\* the success has no payload (a 204, or a body that is null) or a payload of zero records
NoRecords(result) == Nullish(result.data) \/ result.data = JArr(<<>>)

\* text starts with prefix
StartsWith(text, prefix) ==
  Len(text) >= Len(prefix) /\ SubSeq(text, 1, Len(prefix)) = prefix

\* C19: a listing whose remote call succeeds with zero records or with no payload
\* is answered with the fixed "no results" text of the operation, never with a
\* formatted "Found 0 ..." list
EmptyListingGivesSentinel ==
  \A s \in Slots :
    (/\ Done(calls[s])
     /\ calls[s].handler \in ListingHandlers
     /\ RemoteCallSucceeded(calls[s])
     /\ NoRecords(calls[s].result)) =>
      /\ calls[s].returned
      /\ ~IsError(calls[s])
      /\ TextOf(calls[s]) = NoResultsText(calls[s].handler)
      /\ ~StartsWith(TextOf(calls[s]), "Found 0")

\* list_shipments answered with 200 and an empty array
EmptyListingAnswered ==
  \E s \in Slots :
    /\ Done(calls[s])
    /\ calls[s].handler = "listShipments"
    /\ calls[s].response.status = 200
    /\ calls[s].result.data = JArr(<<>>)

\* the create handlers, the payload field each expects and its "no data" text
CreateHandlers == {"createShipment", "createBatch"}
CreatedField(handler) == IF handler = "createShipment" THEN "shipment" ELSE "batch"
NoDataText(handler) ==
  IF handler = "createShipment" THEN "Shipment created but no data returned."
  ELSE "Batch created but no data returned."

\* C20: a create whose remote call succeeds with a payload that lacks the
\* expected nested field, or with no payload, is answered with the fixed
\* "... created but no data returned." text, and the handler throws nothing
CreateWithoutDataGivesSentinel ==
  \A s \in Slots :
    (/\ Done(calls[s])
     /\ calls[s].handler \in CreateHandlers
     /\ RemoteCallSucceeded(calls[s])
     /\ Nullish(OptProp(calls[s].result.data, CreatedField(calls[s].handler)))) =>
      /\ ~calls[s].fault.threw
      /\ calls[s].returned
      /\ ~IsError(calls[s])
      /\ TextOf(calls[s]) = NoDataText(calls[s].handler)

\* create_batch answered with 200 and the body {}
CreateWithoutDataAnswered ==
  \E s \in Slots :
    /\ Done(calls[s])
    /\ calls[s].handler = "createBatch"
    /\ calls[s].response.status = 200
    /\ calls[s].result.data = JObj(<<>>)

\* the client returned the result of a 204: a status, no payload, no error
EmptySuccess(c) == c.settled /\ ~c.clientThrew /\ c.result = ApiResponse(Undefined, Undefined, 204)

\* C21: when the client returns the empty result of a 204, the handler of every
\* tool returns a text and throws nothing: the outcome is not the catch block's
EmptySuccessIsFormatted ==
  \A s \in Slots :
    (Done(calls[s]) /\ EmptySuccess(calls[s])) =>
      /\ ~calls[s].fault.threw
      /\ calls[s].returned
      /\ ~IsError(calls[s])
      /\ calls[s].outcome = ResultOutcome(calls[s].text)

\* get_shipment answered with 204
EmptySuccessAnswered ==
  \E s \in Slots :
    /\ Done(calls[s])
    /\ EmptySuccess(calls[s])
    /\ calls[s].handler = "getShipment"
    /\ TextOf(calls[s]) = "Shipment S1 not found."

\* the tool is annotated readOnlyHint in the catalog
ReadOnly(name) == \E i \in 1..Len(tools) : tools[i].name = name /\ tools[i].readOnlyHint

\* the calls the observer has seen answered: the logged ones and the done ones
Answered == { log[i] : i \in 1..Len(log) } \cup { Entry(calls[s]) : s \in { t \in Slots : Done(calls[t]) } }

\* two answered calls went in alike: the same tool, the same arguments, the same response
SameDispatch(a, b) ==
  a.name = b.name /\ a.args = b.args /\ a.settled = b.settled /\ a.response = b.response

ConcurrentCallsAreIndependent ==
  /\ \A s \in Slots :
       calls[s].handler # "" => calls[s].requests = <<HttpRequestOf(env, calls[s].call)>>
  /\ \A a \in Answered : \A b \in Answered :
       SameDispatch(a, b) => (a.outcome = b.outcome /\ a.requests = b.requests)

\* two calls with the same arguments in flight together, each with its request
TwoAlikeInFlight ==
  /\ calls[1].pc = "awaiting"
  /\ calls[2].pc = "awaiting"
  /\ calls[1].args = calls[2].args
  /\ calls[1].name = calls[2].name
  /\ Len(calls[1].requests) = 1
  /\ Len(calls[2].requests) = 1

\* the names a list operation returns
ListedNames == { ListTools[i].name : i \in 1..Len(ListTools) }

\* the call operation took a case of the switch for the call
Routed(c) == c.handler # "" \/ c.fault.threw

\* C24: the catalog lists no name twice, and in every state a call is routed
\* to a case of the switch exactly when its name is a listed one
CatalogMatchesRouting ==
  /\ \A i \in 1..Len(ListTools) : \A j \in 1..Len(ListTools) :
       ListTools[i].name = ListTools[j].name => i = j
  /\ ListedNames = { SwitchCases[i] : i \in 1..Len(SwitchCases) }
  /\ \A s \in Slots :
       Started(calls[s]) => (calls[s].name \in ListedNames <=> Routed(calls[s]))

\* the last tool of the catalog was called and its handler has answered
LastListedToolAnswered ==
  \E s \in Slots :
    /\ Done(calls[s])
    /\ calls[s].name = ListTools[Len(ListTools)].name
    /\ calls[s].handler = "trackShipment"
    /\ calls[s].returned

\* the catalog entry of a listed tool
ToolNamed(name) == tools[CHOOSE i \in 1..Len(tools) : tools[i].name = name]

\* the HTTP method of the request the handler of the call sent
MethodOf(c) == c.requests[1].method

CreateTools == {"chitchats_create_shipment", "chitchats_create_batch"}
PatchTools ==
  {"chitchats_buy_postage", "chitchats_refund_shipment", "chitchats_refresh_rates",
   "chitchats_add_to_batch", "chitchats_remove_from_batch"}

\* C25: a tool is annotated readOnlyHint exactly when the request of its handler
\* is a GET and destructiveHint exactly when it is a DELETE; the create tools
\* send a POST; purchase, refund, refresh and the batch membership changes send
\* a PATCH; and a handler sends one request only
AnnotationsMatchMethods ==
  \A s \in Slots :
    calls[s].handler # "" =>
      /\ Len(calls[s].requests) = 1
      /\ ToolNamed(calls[s].name).readOnlyHint <=> MethodOf(calls[s]) = "GET"
      /\ ToolNamed(calls[s].name).destructiveHint <=> MethodOf(calls[s]) = "DELETE"
      /\ calls[s].name \in CreateTools => MethodOf(calls[s]) = "POST"
      /\ calls[s].name \in PatchTools => MethodOf(calls[s]) = "PATCH"

\* a refund, which has no annotation, has sent its PATCH and was answered
RefundSentAsPatch ==
  \E s \in Slots :
    /\ Done(calls[s])
    /\ calls[s].name = "chitchats_refund_shipment"
    /\ calls[s].settled
    /\ MethodOf(calls[s]) = "PATCH"
    /\ ~ToolNamed(calls[s].name).readOnlyHint
    /\ ~ToolNamed(calls[s].name).destructiveHint

\* C26: no handler throws, whatever the client gave it: no call is answered
\* from the catch block with a fault of its handler
HandlerNeverFaults ==
  \A s \in Slots :
    (Done(calls[s]) /\ calls[s].settled) =>
      ~(calls[s].fault.threw /\ calls[s].fault.from = "handler")

\* C27: whenever the result of the client is not a success, the text of the
\* handler is its error text ("Error <doing>: <message>"), never a success
\* message or a no-results sentence
FailedResultIsReported ==
  \A s \in Slots :
    (Done(calls[s]) /\ calls[s].returned /\ RemoteCallFailed(calls[s])) =>
      StartsWith(calls[s].text, "Error ")

\* the response of an authenticated call came with status 429 or 204
StatusOnly(c) ==
  Authenticated(c) /\ c.settled /\ ~c.response.rejected /\ c.response.status \in {429, 204}

\* C28: request looks at the status before it reads the body: a 429 gives the
\* rate-limited result and a 204 the empty success without a call of
\* response.json(), also when the body is not JSON, and never the status-500
\* result of the catch block
StatusIsCheckedBeforeBody ==
  \A s \in Slots :
    StatusOnly(calls[s]) =>
      /\ ~calls[s].bodyRead
      /\ ~calls[s].clientThrew
      /\ calls[s].result.status = calls[s].response.status
      /\ calls[s].response.status = 429 => calls[s].result = RateLimitedResult(calls[s].response)
      /\ calls[s].response.status = 204 => calls[s].result = EmptyResult

\* a 429 whose body is not JSON came back to an authenticated call
RateLimitedWithoutJson ==
  \E s \in Slots :
    /\ Done(calls[s])
    /\ StatusOnly(calls[s])
    /\ calls[s].response.status = 429
    /\ ~calls[s].response.json.ok
    /\ calls[s].result.status = 429

\* C29: a call that reached its handler has sent exactly one request, from the
\* await on and when it has returned; a call answered for an unknown name or
\* for refused arguments has sent none
OneRequestPerAcceptedCall ==
  \A s \in Slots :
    /\ calls[s].handler # "" => Len(calls[s].requests) = 1
    /\ (Done(calls[s]) /\ calls[s].handler # "") => calls[s].settled
    /\ (Done(calls[s]) /\ calls[s].handler = "") => NoHttp(calls[s])

\* a batch deletion has returned after its one request
AcceptedCallReturned ==
  \E s \in Slots :
    /\ Done(calls[s])
    /\ calls[s].handler = "deleteBatch"
    /\ calls[s].returned
    /\ Len(calls[s].requests) = 1

\* the entries of a required list or of an enum
Members(seq) == { seq[i] : i \in 1..Len(seq) }

\* the arguments have every field of the advertised required list, and a value
\* of the advertised enum for every advertised enum property they have
SatisfiesAdvertised(tool, args) ==
  LET o == IF args.k = "obj" THEN args.o ELSE <<>>
  IN /\ \A f \in Members(tool.required) : f \in DOMAIN o /\ o[f].k # "undefined"
     /\ \A n \in 1..Len(tool.properties) :
          (tool.properties[n].enum # <<>> /\ tool.properties[n].name \in DOMAIN o) =>
            /\ o[tool.properties[n].name].k = "str"
            /\ o[tool.properties[n].name].s \in Members(tool.properties[n].enum)

\* the call was refused by Schema.parse with an issue of a missing field or of a
\* value outside an enumeration
RefusedAsMissingOrEnum(c) ==
  /\ c.fault.threw
  /\ c.fault.from = "parse"
  /\ \/ Contains(c.fault.message, "\"message\":\"Required\"")
     \/ Contains(c.fault.message, "invalid_enum_value")

\* C30: for every tool the advertised required list is the set of the fields
\* its schema declares without .optional(), and the advertised enums are the
\* enums of the schema, field by field; a call that omits an advertised required
\* field is refused as missing, and a call whose arguments satisfy the
\* advertised required list and enums is never refused for a missing field or
\* for an enum value
AdvertisedSchemaIsEnforced ==
  /\ \A i \in 1..Len(tools) :
       LET tool == tools[i]
           schema == SchemaOf(tool.name)
       IN /\ Members(tool.required) = RequiredNames(schema)
          /\ \A j \in 1..Len(schema) :
               schema[j].type = "enum" =>
                 \E n \in 1..Len(tool.properties) :
                   /\ tool.properties[n].name = schema[j].name
                   /\ Members(tool.properties[n].enum) = Members(schema[j].options)
          /\ \A n \in 1..Len(tool.properties) :
               tool.properties[n].enum # <<>> =>
                 \E j \in 1..Len(schema) :
                   /\ schema[j].name = tool.properties[n].name
                   /\ schema[j].type = "enum"
                   /\ Members(schema[j].options) = Members(tool.properties[n].enum)
  /\ \A s \in Slots :
       (Started(calls[s]) /\ HasCase(calls[s].name)) =>
         /\ (\E f \in Members(ToolNamed(calls[s].name).required) : Omits(calls[s].args, f))
              => RefusedAsMissingOrEnum(calls[s])
         /\ SatisfiesAdvertised(ToolNamed(calls[s].name), calls[s].args)
              => ~RefusedAsMissingOrEnum(calls[s])

\* add_to_batch was called with its two advertised required fields and reached
\* its handler, and count_batches is listed with the enum of its schema
AdvertisedArgumentsAccepted ==
  \E s \in Slots :
    /\ Started(calls[s])
    /\ calls[s].name = "chitchats_add_to_batch"
    /\ SatisfiesAdvertised(ToolNamed(calls[s].name), calls[s].args)
    /\ calls[s].handler = "addToBatch"
    /\ Members(ToolNamed("chitchats_count_batches").properties[1].enum) = {"pending", "received"}

====
